---- MODULE Spec2Model ----
(***************************************************************************)
(* A model of the logium analysis core (crates/logium-core/src/engine.rs   *)
(* and model.rs): the k-way mergers, the state manager, the pattern        *)
(* evaluator and the two Phase-2 drivers, analyze and analyze_streaming.   *)
(***************************************************************************)
EXTENDS Integers, Sequences, FiniteSets, TLC

VARIABLES
    inp,    \* the inputs of one run: the files of the sources and the time range
    mg,     \* a MergedLogStream over the files' line iterators
    pm,     \* a ProcessedLineMerger over the pre-processed sources
    an,     \* one call of analyze
    st,     \* one call of analyze_streaming
    chan    \* the std::sync::mpsc channel analyze_streaming sends into

vars == <<inp, mg, pm, an, st, chan>>

(***************************************************************************)
(* Bounds of the model.                                                    *)
(***************************************************************************)
\* Longest file (lines per source) of the merger runs.
MaxLen == 2
\* Largest timestamp of a line; 0 stands for a line whose timestamp does not parse.
MaxTs == 2

(***************************************************************************)
(* Small helpers.                                                          *)
(***************************************************************************)
\* A run or a channel that takes no part in a specification.
Idle == [pc |-> "idle"]

Range(s) == {s[i] : i \in DOMAIN s}

SeqsUpTo(S, n) == UNION {[1..k -> S] : k \in 0..n}

\* The sources of the merger runs, by registration index (Vec position).
MergeSourceIdx == {0, 1}

(***************************************************************************)
(* Log lines.  A physical line of a file is [ts, content, json]: the       *)
(* timestamp its text carries (0: none that parses), the tokens of its     *)
(* content, and for a JSON line the object it parses to (field name ->     *)
(* JSON value), whose timestamp field carries the timestamp's text.  The   *)
(* line iterator turns it into Ok(LogLine) or Err.  lineno is the line's   *)
(* position in its file.                                                   *)
(***************************************************************************)
NoJson == [present |-> FALSE, object |-> <<>>]

LogLine(ts, source_id, lineno, content, cached_json) ==
    [timestamp |-> ts, source_id |-> source_id, lineno |-> lineno, content |-> content,
     cached_json |-> cached_json]

\* The template of the sources of the merger runs: plain text lines.
PlainTemplate == [id |-> 1, json_timestamp_field |-> ""]

JString(str) == [jtype |-> "String", s |-> str, i |-> 0]
JInt(n) == [jtype |-> "Int", s |-> <<>>, i |-> n]
JFloat(halves) == [jtype |-> "Float", s |-> <<>>, i |-> halves]
JBool(b) == [jtype |-> "Bool", s |-> <<>>, i |-> IF b THEN 1 ELSE 0]
JNull == [jtype |-> "Null", s |-> <<>>, i |-> 0]
\* An array or object value, with the text Value::to_string gives for it.
JOther(text) == [jtype |-> "Other", s |-> text, i |-> 0]

Digits == <<"0", "1", "2", "3", "4", "5", "6", "7", "8", "9">>

\* The text of a timestamp in a JSON line.
TsText(t) == <<Digits[t + 1]>>

\* The timestamp a JSON line's timestamp field parses to (0: it does not parse).
JsonTimestamp(object, field) ==
    IF field \notin DOMAIN object THEN 0
    ELSE IF object[field].jtype # "String" THEN 0
    ELSE LET ks == {t \in 1..9 : TsText(t) = object[field].s}
         IN  IF ks = {} THEN 0 ELSE CHOOSE t \in ks : TRUE

\* LogLineIterator::next on the k-th line of a file: Ok(line) or Err.
LogLineIterator_item(source_id, template, file, k) ==
    LET phys == file[k]
        ts   == IF template.json_timestamp_field # ""
                THEN (IF phys.json.present
                      THEN JsonTimestamp(phys.json.object, template.json_timestamp_field)
                      ELSE 0)
                ELSE phys.ts
        json == IF template.json_timestamp_field # "" THEN phys.json ELSE NoJson
    IN  [ok |-> ts # 0, line |-> LogLine(ts, source_id, k, phys.content, json)]

(***************************************************************************)
(* K-way merge (min-heap).  A BinaryHeap is modelled as the set of its     *)
(* items; pop returns a greatest item under Ord.                           *)
(***************************************************************************)
IntCmp(a, b) == IF a < b THEN "Less" ELSE IF a > b THEN "Greater" ELSE "Equal"

\* Ordering::then_with
ThenWith(first, second) == IF first = "Equal" THEN second ELSE first

\* The ordering without the source-index tie-break.
ProcessedHeapItem_cmp_no_tiebreak(self, other) ==
    IntCmp(other.processed.line.timestamp, self.processed.line.timestamp)

\* The ordering with the timestamp comparison not reversed (a max-heap).
HeapItem_cmp_not_reversed(self, other) ==
    ThenWith(IntCmp(self.line.timestamp, other.line.timestamp),
             IntCmp(other.source_idx, self.source_idx))

\* HeapItem::cmp and ProcessedHeapItem::cmp (the same code): reversed on the
\* timestamp, then reversed on the source index.
HeapItem_cmp(self, other) ==
    ThenWith(IntCmp(other.line.timestamp, self.line.timestamp),
             IntCmp(other.source_idx, self.source_idx))

\* ProcessedHeapItem::cmp: the same ordering on pre-processed lines.
ProcessedHeapItem_cmp(self, other) ==
    ThenWith(IntCmp(other.processed.line.timestamp, self.processed.line.timestamp),
             IntCmp(other.source_idx, self.source_idx))

\* The items BinaryHeap::pop may return: those no other item is greater than
\* (one item when the ordering is total on the heap).
HeapTop(heap) ==
    {item \in heap : \A o \in heap : HeapItem_cmp(item, o) # "Less"}

ProcessedHeapTop(heap) ==
    {item \in heap : \A o \in heap : ProcessedHeapItem_cmp(item, o) # "Less"}

HeapItem(line, idx) == [line |-> line, source_idx |-> idx]

ProcessedHeapItem(processed, idx) == [processed |-> processed, source_idx |-> idx]

\* MergedLogStream::new: pull one entry per iterator, in index order; an Err
\* short-circuits the construction.  pos[i] is the number of lines iterator i
\* has yielded.
RECURSIVE MergedLogStream_fill(_, _, _, _)
MergedLogStream_fill(files, idxs, heap, pos) ==
    IF idxs = {}
    THEN [built |-> TRUE, heap |-> heap, pos |-> pos, out |-> <<>>, done |-> FALSE]
    ELSE LET idx == CHOOSE i \in idxs : \A j \in idxs : i <= j
         IN  IF Len(files[idx]) = 0
             THEN MergedLogStream_fill(files, idxs \ {idx}, heap, pos)
             ELSE LET r == LogLineIterator_item(idx + 1, PlainTemplate, files[idx], 1)
                  IN  IF ~r.ok
                      THEN [built |-> FALSE, heap |-> {}, pos |-> pos,
                            out |-> <<>>, done |-> TRUE]
                      ELSE MergedLogStream_fill(files, idxs \ {idx},
                               heap \cup {HeapItem(r.line, idx)},
                               [pos EXCEPT ![idx] = 1])

MergedLogStream_new(files) ==
    MergedLogStream_fill(files, DOMAIN files, {}, [i \in DOMAIN files |-> 0])

\* MergedLogStream::next with `item` popped: refill from the same source; a
\* refill error is returned in place of the popped entry.
MergedLogStream_next(m, files, item) ==
    LET idx == item.source_idx
        k   == m.pos[idx] + 1
    IN  IF k <= Len(files[idx])
        THEN LET r == LogLineIterator_item(idx + 1, PlainTemplate, files[idx], k)
             IN  IF r.ok
                 THEN [m EXCEPT !.heap = (@ \ {item}) \cup {HeapItem(r.line, idx)},
                                !.pos[idx] = k,
                                !.out = Append(@, [ok |-> TRUE, line |-> item.line])]
                 ELSE [m EXCEPT !.heap = @ \ {item},
                                !.pos[idx] = k,
                                !.out = Append(@, [ok |-> FALSE, line |-> r.line])]
        ELSE [m EXCEPT !.heap = @ \ {item},
                       !.out = Append(@, [ok |-> TRUE, line |-> item.line])]

\* ProcessedLineMerger::new: the first line of every non-empty source.
ProcessedLineMerger_new(sources) ==
    [heap  |-> {ProcessedHeapItem(sources[i][1], i) : i \in {j \in DOMAIN sources : Len(sources[j]) > 0}},
     iters |-> [i \in DOMAIN sources |-> IF Len(sources[i]) > 0 THEN Tail(sources[i]) ELSE <<>>]]

\* A next that pops an item and does not refill from its source.
ProcessedLineMerger_next_no_refill(m, item) ==
    [heap |-> m.heap \ {item}, iters |-> m.iters]

\* ProcessedLineMerger::next with `item` popped: refill from the same source.
ProcessedLineMerger_next(m, item) ==
    LET idx == item.source_idx
    IN  IF Len(m.iters[idx]) > 0
        THEN [heap  |-> (m.heap \ {item}) \cup {ProcessedHeapItem(Head(m.iters[idx]), idx)},
              iters |-> [m.iters EXCEPT ![idx] = Tail(@)]]
        ELSE [heap |-> m.heap \ {item}, iters |-> m.iters]

(***************************************************************************)
(* StateValue (model.rs).  A string is a sequence of characters.  A float  *)
(* is held in halves (Float(1.5) has i = 3), which is exact for the sums   *)
(* and comparisons below; NaN is the float with s = <<"NaN">>.             *)
(***************************************************************************)
String(str) == [type |-> "String", s |-> str, i |-> 0]
Integer(n) == [type |-> "Integer", s |-> <<>>, i |-> n]
Float(halves) == [type |-> "Float", s |-> <<>>, i |-> halves]
Bool(b) == [type |-> "Bool", s |-> <<>>, i |-> IF b THEN 1 ELSE 0]
NaN == [type |-> "Float", s |-> <<"NaN">>, i |-> 0]
\* Option::None
None == [type |-> "None", s |-> <<>>, i |-> 0]

IsNaN(v) == v.type = "Float" /\ v.s = <<"NaN">>

\* `a as f64`, in halves.
AsF64(n) == 2 * n

\* The byte order of the characters the model's strings are made of.
CharCode(c) ==
    CASE c = "," -> 44 [] c = "." -> 46
      [] c = "0" -> 48 [] c = "1" -> 49 [] c = "2" -> 50 [] c = "3" -> 51
      [] c = "4" -> 52 [] c = "5" -> 53 [] c = "6" -> 54 [] c = "7" -> 55
      [] c = "8" -> 56 [] c = "9" -> 57
      [] c = "N" -> 78 [] c = "a" -> 97 [] c = "d" -> 100 [] c = "e" -> 101
      [] c = "n" -> 110 [] c = "o" -> 111 [] c = "p" -> 112 [] c = "r" -> 114
      [] c = "t" -> 116 [] c = "u" -> 117 [] c = "w" -> 119
      [] OTHER -> 127

\* str::cmp: lexicographic by byte.
RECURSIVE StrCmp(_, _)
StrCmp(a, b) ==
    IF a = <<>> /\ b = <<>> THEN "Equal"
    ELSE IF a = <<>> THEN "Less"
    ELSE IF b = <<>> THEN "Greater"
    ELSE IF Head(a) = Head(b) THEN StrCmp(Tail(a), Tail(b))
    ELSE IntCmp(CharCode(Head(a)), CharCode(Head(b)))

\* str::contains
StrContains(a, b) ==
    \E k \in 0..(Len(a) - Len(b)) : SubSeq(a, k + 1, k + Len(b)) = b

\* f64 == f64 and f64::partial_cmp, on floats in halves.
F64Eq(a_nan, a, b_nan, b) == ~a_nan /\ ~b_nan /\ a = b
F64Cmp(a_nan, a, b_nan, b) == IF a_nan \/ b_nan THEN "None" ELSE IntCmp(a, b)

\* impl PartialEq for StateValue
StateValue_eq(a, b) ==
    CASE a.type = "String" /\ b.type = "String" -> a.s = b.s
      [] a.type = "Integer" /\ b.type = "Integer" -> a.i = b.i
      [] a.type = "Float" /\ b.type = "Float" -> F64Eq(IsNaN(a), a.i, IsNaN(b), b.i)
      [] a.type = "Bool" /\ b.type = "Bool" -> a.i = b.i
      [] a.type = "Integer" /\ b.type = "Float" -> F64Eq(FALSE, AsF64(a.i), IsNaN(b), b.i)
      [] a.type = "Float" /\ b.type = "Integer" -> F64Eq(IsNaN(a), a.i, FALSE, AsF64(b.i))
      [] OTHER -> FALSE

\* impl PartialOrd for StateValue: "Less", "Equal", "Greater" or "None".
StateValue_partial_cmp(a, b) ==
    CASE a.type = "String" /\ b.type = "String" -> StrCmp(a.s, b.s)
      [] a.type = "Integer" /\ b.type = "Integer" -> IntCmp(a.i, b.i)
      [] a.type = "Float" /\ b.type = "Float" -> F64Cmp(IsNaN(a), a.i, IsNaN(b), b.i)
      [] a.type = "Bool" /\ b.type = "Bool" -> IntCmp(a.i, b.i)
      [] a.type = "Integer" /\ b.type = "Float" -> F64Cmp(FALSE, AsF64(a.i), IsNaN(b), b.i)
      [] a.type = "Float" /\ b.type = "Integer" -> F64Cmp(IsNaN(a), a.i, FALSE, AsF64(b.i))
      [] OTHER -> "None"

\* Option<StateValue> != Option<StateValue> (the derived PartialEq of Option).
Option_ne(a, b) ==
    IF a.type = "None" \/ b.type = "None"
    THEN a.type # b.type
    ELSE ~StateValue_eq(a, b)

\* The width the model gives i64, and the range it leaves.
IntWidth == 4

I64Max == 2 ^ (IntWidth - 1) - 1

I64Min == -(2 ^ (IntWidth - 1))

\* The value of an expression that panicked: the thread unwinds.
Panic == [type |-> "Panic", s |-> <<>>, i |-> 0]

\* The build panics on integer overflow (overflow-checks, the default of a
\* debug build) or wraps (the default of a release build).
OverflowChecks == inp.overflow_checks

\* i64 + i64
I64Add(a, b) ==
    IF a + b >= I64Min /\ a + b <= I64Max THEN Integer(a + b)
    ELSE IF OverflowChecks THEN Panic
    ELSE Integer(((a + b - I64Min) % (2 ^ IntWidth)) + I64Min)

\* f64 + f64 on floats in halves.
\* The width the model gives the significand of f64.
FloatMantissa == 3

\* The multiple of q nearest to h >= 0, a tie going to the even multiple.
RoundTo(h, q) ==
    LET lo == (h \div q) * q
        r  == h - lo
    IN  IF 2 * r < q THEN lo
        ELSE IF 2 * r > q THEN lo + q
        ELSE IF (lo \div q) % 2 = 0 THEN lo ELSE lo + q

\* The spacing of the floats around h >= 0 (in halves).
RECURSIVE Quantum(_, _)
Quantum(h, q) == IF h < (2 ^ FloatMantissa) * q THEN q ELSE Quantum(h, 2 * q)

\* Round to nearest, ties to even: the f64 nearest to a number of halves.
F64Round(h) ==
    IF h >= 0 THEN RoundTo(h, Quantum(h, 1)) ELSE -RoundTo(-h, Quantum(-h, 1))

F64Add(a, b) == IF IsNaN(a) \/ IsNaN(b) THEN NaN ELSE Float(F64Round(a.i + b.i))

(***************************************************************************)
(* State manager.  per_source_state maps a source id to the address of an  *)
(* Arc<HashMap<String, TrackedValue>> (0: no entry); arcs[a] is the map    *)
(* at address a with its strong count.  A map is a function on StateKeys,  *)
(* an absent key holding Absent.                                           *)
(***************************************************************************)
StateKeys == {"status", "n", "ts", "ok", "port"}

SourceIds == {1, 2}

TrackedValue(value, set_at) == [value |-> value, set_at |-> set_at]

Absent == [value |-> None, set_at |-> 0]

EmptyMap == [k \in StateKeys |-> Absent]

\* HashMap::get(..).map(|t| t.value.clone())
MapGet(state, key) == state[key].value

\* HashMap::insert
MapInsert(state, key, tracked) == [state EXCEPT ![key] = tracked]

\* A remove that leaves the entry in the map.
MapRemove_noop(state, key) == state

\* HashMap::remove
MapRemove(state, key) == [state EXCEPT ![key] = Absent]

\* The source of a given id that StateManager::new inserts last.
LastWithId(sources, id) ==
    LET ks == {k \in DOMAIN sources : sources[k].id = id}
    IN  CHOOSE k \in ks : \A j \in ks : j <= k

LastWithName(sources, name) ==
    LET ks == {k \in DOMAIN sources : sources[k].name = name}
    IN  CHOOSE k \in ks : \A j \in ks : j <= k

\* StateManager::new
StateManager_new(sources) ==
    [per_source_state |-> [id \in SourceIds |-> 0],
     arcs             |-> <<>>,
     source_names     |-> [id \in {sources[k].id : k \in DOMAIN sources} |->
                              sources[LastWithId(sources, id)].name],
     name_to_id       |-> [nm \in {sources[k].name : k \in DOMAIN sources} |->
                              sources[LastWithName(sources, nm)].id]]

\* A make_mut that hands out the shared map itself instead of a private copy.
Arc_make_mut_in_place(sm, source_id) ==
    IF sm.per_source_state[source_id] = 0
    THEN [sm EXCEPT !.arcs = Append(@, [map |-> EmptyMap, strong |-> 1]),
                    !.per_source_state[source_id] = Len(sm.arcs) + 1]
    ELSE sm

\* Arc::make_mut(per_source_state.entry(source_id).or_default()): afterwards the
\* entry's map is owned by the state manager alone.  A map some snapshot shares
\* is cloned, and the entry is pointed at the clone.
Arc_make_mut(sm, source_id) ==
    LET a == sm.per_source_state[source_id]
    IN  IF a = 0
        THEN [sm EXCEPT !.arcs = Append(@, [map |-> EmptyMap, strong |-> 1]),
                        !.per_source_state[source_id] = Len(sm.arcs) + 1]
        ELSE IF sm.arcs[a].strong = 1
        THEN sm
        ELSE [sm EXCEPT !.arcs = Append([@ EXCEPT ![a].strong = @ - 1],
                                        [map |-> sm.arcs[a].map, strong |-> 1]),
                        !.per_source_state[source_id] = Len(sm.arcs) + 1]

\* The map a source's entry points at.
StateOf(sm, source_id) == sm.arcs[sm.per_source_state[source_id]].map

\* Writes `state` through the (exclusively owned) entry of source_id.
SetStateOf(sm, source_id, state) ==
    [sm EXCEPT !.arcs[sm.per_source_state[source_id]].map = state]

\* An accumulate that replaces the existing value.
accumulate_replaces(state, key, new_val, timestamp) ==
    MapInsert(state, key, TrackedValue(new_val, timestamp))

\* accumulate
accumulate(state, key, new_val, timestamp) ==
    IF state[key].value.type # "None"
    THEN LET a == state[key].value
             b == new_val
             merged ==
                 CASE a.type = "String" /\ b.type = "String" ->
                          String(a.s \o <<",">> \o b.s)
                   [] a.type = "Integer" /\ b.type = "Integer" -> I64Add(a.i, b.i)
                   [] a.type = "Float" /\ b.type = "Float" -> F64Add(a, b)
                   [] a.type = "Integer" /\ b.type = "Float" -> F64Add(Float(AsF64(a.i)), b)
                   [] a.type = "Float" /\ b.type = "Integer" -> F64Add(a, Float(AsF64(b.i)))
                   [] OTHER -> new_val
         IN  MapInsert(state, key, TrackedValue(merged, timestamp))
    ELSE MapInsert(state, key, TrackedValue(new_val, timestamp))

Change(key, old, new) == [key |-> key, old |-> old, new |-> new]

\* The write of a Static or Parsed extraction: Replace or Accumulate.
WriteValue(state, rule, val, timestamp) ==
    IF rule.mode = "Replace"
    THEN MapInsert(state, rule.state_key, TrackedValue(val, timestamp))
    ELSE accumulate(state, rule.state_key, val, timestamp)

\* The body of the loop of apply_mutations for one extraction rule: acc is the
\* map and the changes so far.
apply_one(acc, rule, extractions, timestamp) ==
    LET state == acc.state
        old   == MapGet(state, rule.state_key)
    IN  CASE rule.extraction_type = "Clear" ->
                 [state   |-> MapRemove(state, rule.state_key),
                  changes |-> IF old.type # "None"
                              THEN Append(acc.changes, Change(rule.state_key, old, None))
                              ELSE acc.changes]
          [] rule.extraction_type = "Static" ->
                 IF rule.static_value.type # "None"
                 THEN LET after == WriteValue(state, rule, rule.static_value, timestamp)
                          new   == MapGet(after, rule.state_key)
                      IN  [state   |-> after,
                           changes |-> IF Option_ne(old, new)
                                       THEN Append(acc.changes, Change(rule.state_key, old, new))
                                       ELSE acc.changes]
                 ELSE acc
          [] rule.extraction_type = "Parsed" ->
                 IF extractions[rule.state_key].type # "None"
                 THEN LET after == WriteValue(state, rule, extractions[rule.state_key], timestamp)
                          new   == MapGet(after, rule.state_key)
                      IN  [state   |-> after,
                           changes |-> IF Option_ne(old, new)
                                       THEN Append(acc.changes, Change(rule.state_key, old, new))
                                       ELSE acc.changes]
                 ELSE acc

RECURSIVE apply_loop(_, _, _, _)
apply_loop(acc, rules, extractions, timestamp) ==
    IF rules = <<>>
    THEN acc
    ELSE apply_loop(apply_one(acc, Head(rules), extractions, timestamp),
                    Tail(rules), extractions, timestamp)

\* An apply_mutations that finds the state to write by the name of the source.
apply_mutations_by_name(sm, source_id, extractions, rules, timestamp) ==
    LET named == sm.name_to_id[sm.source_names[source_id]]
        sm1 == Arc_make_mut(sm, named)
        r   == apply_loop([state |-> StateOf(sm1, named), changes |-> <<>>],
                          rules, extractions, timestamp)
    IN  [sm |-> SetStateOf(sm1, named, r.state), changes |-> r.changes]

\* StateManager::apply_mutations: [sm, changes].
apply_mutations(sm, source_id, extractions, rules, timestamp) ==
    LET sm1 == Arc_make_mut(sm, source_id)
        r   == apply_loop([state |-> StateOf(sm1, source_id), changes |-> <<>>],
                          rules, extractions, timestamp)
    IN  [sm |-> SetStateOf(sm1, source_id, r.state), changes |-> r.changes]

\* StateManager::get_state_by_name: the value, or None.
get_state_by_name(sm, source_name, key) ==
    IF source_name \notin DOMAIN sm.name_to_id THEN None
    ELSE LET id == sm.name_to_id[source_name]
         IN  IF id \notin SourceIds \/ sm.per_source_state[id] = 0 THEN None
             ELSE IF key \notin StateKeys THEN None
             ELSE MapGet(StateOf(sm, id), key)

\* The ids that have an entry in per_source_state and a name.
SnapshotIds(sm) ==
    {id \in SourceIds : sm.per_source_state[id] # 0 /\ id \in DOMAIN sm.source_names}

\* The order in which the per_source_state HashMap of the run is iterated.
HashOrder == inp.hash_order

\* snap.insert(name, ..) in the order of the map's iteration: of the entries
\* whose sources share a name the one iterated last stays.
SnapshotWinner(sm, nm) ==
    LET same == {id \in SnapshotIds(sm) : sm.source_names[id] = nm}
    IN  IF Cardinality(same) = 1 THEN CHOOSE id \in same : TRUE
        ELSE CHOOSE id \in same :
                 \A o \in same :
                     \A j, k \in DOMAIN HashOrder :
                         (HashOrder[j] = o /\ HashOrder[k] = id) => j <= k

\* StateManager::snapshot: the handle map (source name -> address of the shared
\* map), and the state manager with the strong counts Arc::clone has raised.
snapshot(sm) ==
    [snap |-> [nm \in {sm.source_names[id] : id \in SnapshotIds(sm)} |->
                  sm.per_source_state[SnapshotWinner(sm, nm)]],
     sm   |-> [sm EXCEPT !.arcs =
                  [a \in DOMAIN sm.arcs |->
                      IF \E id \in SnapshotIds(sm) :
                             /\ sm.per_source_state[id] = a
                             /\ SnapshotWinner(sm, sm.source_names[id]) = id
                      THEN [sm.arcs[a] EXCEPT !.strong = @ + 1]
                      ELSE sm.arcs[a]]]]

(***************************************************************************)
(* Rules.  The regex crate is outside the repository; a line's content is  *)
(* a sequence of tokens, a match pattern is the word it looks for, and a   *)
(* Parsed extraction's pattern `key=(?P<group>\S+)` is [key, group]: it    *)
(* captures, under the name `group`, the text of the first token `key=..`. *)
(***************************************************************************)
Word(w) == [word |-> w, val |-> <<>>]
KV(k, text) == [word |-> k, val |-> text]

NoPattern == [key |-> "", group |-> ""]

MatchRule(id, pattern) == [id |-> id, pattern |-> pattern]

ExtractionRule(id, extraction_type, state_key, pattern, static_value, mode) ==
    [id |-> id, extraction_type |-> extraction_type, state_key |-> state_key,
     pattern |-> pattern, static_value |-> static_value, mode |-> mode]

LogRule(id, match_mode, match_rules, extraction_rules) ==
    [id |-> id, match_mode |-> match_mode, match_rules |-> match_rules,
     extraction_rules |-> extraction_rules]

\* RegexSet::matches(content): the indices of the patterns that match.
RegexSet_matches(patterns, content) ==
    {k \in DOMAIN patterns : \E t \in DOMAIN content : content[t].word = patterns[k]}

\* Regex::captures(content) then caps.name(name): the captured text, or <<>>
\* with found = FALSE.
Regex_capture(pattern, content, name) ==
    LET ts == {t \in DOMAIN content : content[t].word = pattern.key /\ content[t].val # <<>>}
    IN  IF ts = {} \/ pattern.group # name
        THEN [found |-> FALSE, text |-> <<>>]
        ELSE [found |-> TRUE, text |-> content[CHOOSE t \in ts : \A u \in ts : t <= u].val]

IsDigit(c) == CharCode(c) >= CharCode("0") /\ CharCode(c) <= CharCode("9")

DigitVal(c) == CharCode(c) - CharCode("0")

AllDigits(str) == str # <<>> /\ \A k \in DOMAIN str : IsDigit(str[k])

RECURSIVE DecimalVal(_)
DecimalVal(str) ==
    IF str = <<>> THEN 0
    ELSE 10 * DecimalVal(SubSeq(str, 1, Len(str) - 1)) + DigitVal(str[Len(str)])

\* str::parse::<i64>, on unsigned decimal text: Err on a number out of range.
ParseI64(str) ==
    IF AllDigits(str) /\ DecimalVal(str) <= I64Max
    THEN [ok |-> TRUE, v |-> DecimalVal(str)]
    ELSE [ok |-> FALSE, v |-> 0]

\* str::parse::<f64>, on the texts the model's lines hold: "NaN", digits, and
\* digits "." "0" or "5" (a float that is a whole number of halves).
ParseF64(str) ==
    IF str = <<"N", "a", "N">> THEN [ok |-> TRUE, v |-> NaN]
    ELSE IF AllDigits(str) THEN [ok |-> TRUE, v |-> Float(AsF64(DecimalVal(str)))]
    ELSE IF /\ Len(str) >= 3
            /\ str[Len(str) - 1] = "."
            /\ str[Len(str)] \in {"0", "5"}
            /\ AllDigits(SubSeq(str, 1, Len(str) - 2))
    THEN [ok |-> TRUE,
          v  |-> Float(AsF64(DecimalVal(SubSeq(str, 1, Len(str) - 2)))
                       + (IF str[Len(str)] = "5" THEN 1 ELSE 0))]
    ELSE [ok |-> FALSE, v |-> None]

\* The coercion of a captured text: integer, then float, then bool, else string.
CoerceCaptured(str) ==
    IF ParseI64(str).ok THEN Integer(ParseI64(str).v)
    ELSE IF ParseF64(str).ok THEN ParseF64(str).v
    ELSE IF str = <<"t", "r", "u", "e">> THEN Bool(TRUE)
    ELSE IF str = <<"f", "a", "l", "s", "e">> THEN Bool(FALSE)
    ELSE String(str)

\* compile_rules, for one rule: the match set and the (index, regex) pairs of
\* the Parsed extractions that have a pattern.
CompiledRule(rule) ==
    [rule_id     |-> rule.id,
     match_set   |-> [k \in DOMAIN rule.match_rules |-> rule.match_rules[k].pattern],
     match_count |-> Len(rule.match_rules),
     match_mode  |-> rule.match_mode,
     extraction_regexes |->
         LET idxs == {k \in DOMAIN rule.extraction_rules :
                         /\ rule.extraction_rules[k].extraction_type = "Parsed"
                         /\ rule.extraction_rules[k].pattern # NoPattern}
         IN  [k \in idxs |-> rule.extraction_rules[k].pattern]]

NoExtractions == [k \in StateKeys |-> None]

\* The compiled regex evaluate_rule finds for extraction rule `ext`: the first
\* pair whose extraction rule has ext's id.
FindRegex(rule, compiled, ext) ==
    LET idxs == {k \in DOMAIN compiled.extraction_regexes :
                    rule.extraction_rules[k].id = ext.id}
    IN  IF idxs = {} THEN NoPattern
        ELSE compiled.extraction_regexes[CHOOSE k \in idxs : \A j \in idxs : k <= j]

\* The loop of evaluate_rule over the extraction rules.
RECURSIVE evaluate_extractions(_, _, _, _, _)
evaluate_extractions(rule, compiled, content, exts, extracted) ==
    IF exts = <<>> THEN extracted
    ELSE LET ext == Head(exts)
             cap == Regex_capture(FindRegex(rule, compiled, ext), content, ext.state_key)
             next ==
                 CASE ext.extraction_type = "Static" ->
                          IF ext.static_value.type # "None"
                          THEN [extracted EXCEPT ![ext.state_key] = ext.static_value]
                          ELSE extracted
                   [] ext.extraction_type = "Clear" -> extracted
                   [] ext.extraction_type = "Parsed" ->
                          IF FindRegex(rule, compiled, ext) # NoPattern /\ cap.found
                          THEN [extracted EXCEPT ![ext.state_key] = CoerceCaptured(cap.text)]
                          ELSE extracted
         IN  evaluate_extractions(rule, compiled, content, Tail(exts), next)

\* An evaluate_rule whose All mode asks for one matching pattern only.
rule_matched_any_only(compiled, content) ==
    RegexSet_matches(compiled.match_set, content) # {}

\* The match decision of evaluate_rule.
rule_matched(compiled, content) ==
    LET matches == RegexSet_matches(compiled.match_set, content)
    IN  IF compiled.match_mode = "Any"
        THEN matches # {}
        ELSE Cardinality(matches) = compiled.match_count

\* evaluate_rule: [matched, extracted].
evaluate_rule(rule, line, compiled) ==
    IF ~rule_matched(compiled, line.content)
    THEN [matched |-> FALSE, extracted |-> NoExtractions]
    ELSE [matched |-> TRUE,
          extracted |-> evaluate_extractions(rule, compiled, line.content,
                                             rule.extraction_rules, NoExtractions)]

(***************************************************************************)
(* Pattern evaluator.                                                      *)
(***************************************************************************)
Literal(v) == [kind |-> "Literal", value |-> v, source_name |-> "", state_key |-> ""]
StateRef(source_name, state_key) ==
    [kind |-> "StateRef", value |-> None, source_name |-> source_name, state_key |-> state_key]

PatternPredicate(source_name, state_key, operator, operand) ==
    [source_name |-> source_name, state_key |-> state_key,
     operator |-> operator, operand |-> operand]

Pattern(id, predicates) == [id |-> id, predicates |-> predicates]

\* evaluate_predicate
evaluate_predicate(pred, sm) ==
    LET current_val == get_state_by_name(sm, pred.source_name, pred.state_key)
        operand_val == IF pred.operand.kind = "Literal"
                       THEN pred.operand.value
                       ELSE get_state_by_name(sm, pred.operand.source_name,
                                              pred.operand.state_key)
        both == current_val.type # "None" /\ operand_val.type # "None"
        ord  == StateValue_partial_cmp(current_val, operand_val)
    IN  CASE pred.operator = "Exists" -> current_val.type # "None"
          [] pred.operator = "Eq" -> both /\ StateValue_eq(current_val, operand_val)
          [] pred.operator = "Neq" -> both /\ ~StateValue_eq(current_val, operand_val)
          [] pred.operator = "Gt" -> both /\ ord = "Greater"
          [] pred.operator = "Lt" -> both /\ ord = "Less"
          [] pred.operator = "Gte" -> both /\ ord \in {"Greater", "Equal"}
          [] pred.operator = "Lte" -> both /\ ord \in {"Less", "Equal"}
          [] pred.operator = "Contains" ->
                 /\ current_val.type = "String" /\ operand_val.type = "String"
                 /\ StrContains(current_val.s, operand_val.s)

\* PatternEvaluator::new
PatternEvaluator_new(patterns) == [progress |-> [i \in DOMAIN patterns |-> 0]]

\* The timestamp evaluate_patterns gives a match (the wall clock); the drivers
\* overwrite it with the line's timestamp.
WallClock == 0

PatternMatch(pattern_id, timestamp, state_snapshot) ==
    [pattern_id |-> pattern_id, timestamp |-> timestamp, state_snapshot |-> state_snapshot]

\* A body of the loop that resets the progress whenever an earlier predicate
\* has stopped holding, whether or not the current one holds.
evaluate_one_eager_reset(acc, i, pattern) ==
    IF pattern.predicates = <<>> THEN acc
    ELSE LET progress == acc.progress[i]
             all_previous_hold ==
                 \A prev_idx \in 1..progress :
                     evaluate_predicate(pattern.predicates[prev_idx], acc.sm)
         IN  IF ~all_previous_hold
             THEN [acc EXCEPT !.progress[i] = 0]
             ELSE IF ~evaluate_predicate(pattern.predicates[progress + 1], acc.sm)
             THEN acc
             ELSE IF progress + 1 = Len(pattern.predicates)
             THEN LET snap == snapshot(acc.sm)
                  IN  [progress |-> [acc.progress EXCEPT ![i] = 0],
                       matches  |-> Append(acc.matches,
                                           PatternMatch(pattern.id, WallClock, snap.snap)),
                       sm       |-> snap.sm]
             ELSE [acc EXCEPT !.progress[i] = progress + 1]

\* A body of the loop without the guard on empty predicate lists: such a
\* pattern is complete at once.
evaluate_one_no_empty_guard(acc, i, pattern) ==
    LET progress == acc.progress[i]
    IN  IF progress = Len(pattern.predicates)
           \/ evaluate_predicate(pattern.predicates[progress + 1], acc.sm)
        THEN IF progress + 1 >= Len(pattern.predicates)
             THEN LET snap == snapshot(acc.sm)
                  IN  [progress |-> [acc.progress EXCEPT ![i] = 0],
                       matches  |-> Append(acc.matches,
                                           PatternMatch(pattern.id, WallClock, snap.snap)),
                       sm       |-> snap.sm]
             ELSE [acc EXCEPT !.progress[i] = progress + 1]
        ELSE acc

\* A body of the loop that does not reset the progress after a match.
evaluate_one_no_refire(acc, i, pattern) ==
    IF pattern.predicates = <<>> \/ acc.progress[i] >= Len(pattern.predicates) THEN acc
    ELSE LET progress == acc.progress[i]
         IN  IF evaluate_predicate(pattern.predicates[progress + 1], acc.sm)
             THEN IF progress + 1 = Len(pattern.predicates)
                  THEN LET snap == snapshot(acc.sm)
                       IN  [progress |-> [acc.progress EXCEPT ![i] = progress + 1],
                            matches  |-> Append(acc.matches,
                                                PatternMatch(pattern.id, WallClock, snap.snap)),
                            sm       |-> snap.sm]
                  ELSE [acc EXCEPT !.progress[i] = progress + 1]
             ELSE acc

\* A body of the loop that resets the progress only after it has left the
\* predicate list.
evaluate_one_late_reset(acc, i, pattern) ==
    IF pattern.predicates = <<>> THEN acc
    ELSE LET progress == acc.progress[i]
         IN  IF progress >= Len(pattern.predicates) THEN [acc EXCEPT !.progress[i] = 0]
             ELSE IF evaluate_predicate(pattern.predicates[progress + 1], acc.sm)
             THEN LET all_previous_hold ==
                          \A prev_idx \in 1..progress :
                              evaluate_predicate(pattern.predicates[prev_idx], acc.sm)
                  IN  IF ~all_previous_hold
                      THEN [acc EXCEPT !.progress[i] = 0]
                      ELSE IF progress + 1 = Len(pattern.predicates)
                      THEN LET snap == snapshot(acc.sm)
                           IN  [progress |-> [acc.progress EXCEPT ![i] = progress + 1],
                                matches  |-> Append(acc.matches,
                                                    PatternMatch(pattern.id, WallClock, snap.snap)),
                                sm       |-> snap.sm]
                      ELSE [acc EXCEPT !.progress[i] = progress + 1]
             ELSE acc

\* A body of the loop that advances over every predicate that holds.
RECURSIVE evaluate_one_runs_ahead(_, _, _)
evaluate_one_runs_ahead(acc, i, pattern) ==
    IF pattern.predicates = <<>> THEN acc
    ELSE LET progress == acc.progress[i]
         IN  IF evaluate_predicate(pattern.predicates[progress + 1], acc.sm)
             THEN LET all_previous_hold ==
                          \A prev_idx \in 1..progress :
                              evaluate_predicate(pattern.predicates[prev_idx], acc.sm)
                  IN  IF ~all_previous_hold
                      THEN [acc EXCEPT !.progress[i] = 0]
                      ELSE IF progress + 1 = Len(pattern.predicates)
                      THEN LET snap == snapshot(acc.sm)
                           IN  [progress |-> [acc.progress EXCEPT ![i] = 0],
                                matches  |-> Append(acc.matches,
                                                    PatternMatch(pattern.id, WallClock, snap.snap)),
                                sm       |-> snap.sm]
                      ELSE evaluate_one_runs_ahead([acc EXCEPT !.progress[i] = progress + 1],
                                                   i, pattern)
             ELSE acc

\* The body of the loop of evaluate_patterns for pattern i (patterns and their
\* predicates are indexed from 1 here, so predicates[progress + 1] is the
\* code's predicates[progress]).
evaluate_one(acc, i, pattern) ==
    IF pattern.predicates = <<>> THEN acc
    ELSE LET progress == acc.progress[i]
         IN  IF evaluate_predicate(pattern.predicates[progress + 1], acc.sm)
             THEN LET all_previous_hold ==
                          \A prev_idx \in 1..progress :
                              evaluate_predicate(pattern.predicates[prev_idx], acc.sm)
                  IN  IF ~all_previous_hold
                      THEN [acc EXCEPT !.progress[i] = 0]
                      ELSE IF progress + 1 = Len(pattern.predicates)
                      THEN LET snap == snapshot(acc.sm)
                           IN  [progress |-> [acc.progress EXCEPT ![i] = 0],
                                matches  |-> Append(acc.matches,
                                                    PatternMatch(pattern.id, WallClock, snap.snap)),
                                sm       |-> snap.sm]
                      ELSE [acc EXCEPT !.progress[i] = progress + 1]
             ELSE acc

RECURSIVE evaluate_loop(_, _, _)
evaluate_loop(acc, i, patterns) ==
    IF i > Len(patterns) THEN acc
    ELSE evaluate_loop(evaluate_one(acc, i, patterns[i]), i + 1, patterns)

\* PatternEvaluator::evaluate_patterns: the new progress, the matches, and the
\* state manager with the strong counts the snapshots have raised.
evaluate_patterns(pattern_eval, patterns, sm) ==
    evaluate_loop([progress |-> pattern_eval.progress, matches |-> <<>>, sm |-> sm],
                  1, patterns)

(***************************************************************************)
(* Phase 1: process_source.                                                *)
(***************************************************************************)
NoFields == [present |-> FALSE, fields |-> [k \in StateKeys |-> None]]

ProcessedLine(line, rule_matches, json_fields) ==
    [line |-> line, rule_matches |-> rule_matches, json_fields |-> json_fields]

\* json_value_to_state_value: the state value, or None.
\* The conversion with every value kept as its text.
json_value_to_state_value_as_text(v) ==
    IF v.jtype = "Null" THEN None ELSE String(v.s)

json_value_to_state_value(v) ==
    CASE v.jtype = "String" -> String(v.s)
      [] v.jtype = "Int" -> Integer(v.i)
      [] v.jtype = "Float" -> Float(v.i)
      [] v.jtype = "Bool" -> Bool(v.i = 1)
      [] v.jtype = "Null" -> None
      [] OTHER -> String(v.s)

\* HashMap lookups built by `.map(|r| (r.id, r)).collect()`: of two entries with
\* one id the later one stays.
HasId(items, id) == \E k \in DOMAIN items : items[k].id = id

ById(items, id) ==
    LET ks == {k \in DOMAIN items : items[k].id = id}
    IN  items[CHOOSE k \in ks : \A j \in ks : j <= k]

\* The lookup with the rulesets of every template taken for one template.
RECURSIVE template_rule_ids_any_template(_, _)
template_rule_ids_any_template(rulesets, template_id) ==
    IF rulesets = <<>> THEN <<>>
    ELSE Head(rulesets).rule_ids \o template_rule_ids_any_template(Tail(rulesets), template_id)

\* template_rule_ids[template_id]: the rule ids of every ruleset of the
\* template, appended in ruleset order (Vec::extend).
RECURSIVE template_rule_ids(_, _)
template_rule_ids(rulesets, template_id) ==
    IF rulesets = <<>> THEN <<>>
    ELSE (IF Head(rulesets).template_id = template_id THEN Head(rulesets).rule_ids ELSE <<>>)
         \o template_rule_ids(Tail(rulesets), template_id)

\* The loop over rule_ids of process_source, for one line.
RECURSIVE line_rule_matches(_, _, _)
line_rule_matches(rule_ids, rules, line) ==
    IF rule_ids = <<>> THEN <<>>
    ELSE LET rule_id == Head(rule_ids)
             rest    == line_rule_matches(Tail(rule_ids), rules, line)
         IN  IF HasId(rules, rule_id)
             THEN LET rule == ById(rules, rule_id)
                      r    == evaluate_rule(rule, line, CompiledRule(rule))
                  IN  IF r.matched
                      THEN <<[rule_id |-> rule_id, extracted |-> r.extracted]>> \o rest
                      ELSE rest
             ELSE rest

\* The json_fields of process_source, for one line.
line_json_fields(is_json, line) ==
    IF is_json /\ line.cached_json.present
    THEN [present |-> TRUE,
          fields  |-> [k \in StateKeys |->
                          IF k \in DOMAIN line.cached_json.object
                          THEN json_value_to_state_value(line.cached_json.object[k])
                          ELSE None]]
    ELSE NoFields

\* process_source: Err when a line of the file does not parse, else the
\* pre-processed lines in file order.
process_source(source, template, rule_ids, rules, file) ==
    LET items == [k \in DOMAIN file |-> LogLineIterator_item(source.id, template, file, k)]
    IN  IF \E k \in DOMAIN items : ~items[k].ok
        THEN [ok |-> FALSE, lines |-> <<>>]
        ELSE [ok |-> TRUE,
              lines |-> [k \in DOMAIN items |->
                            ProcessedLine([items[k].line EXCEPT !.cached_json = NoJson],
                                          line_rule_matches(rule_ids, rules, items[k].line),
                                          line_json_fields(template.json_timestamp_field # "",
                                                           items[k].line))]]

\* A Phase 1 that hands on the lines of each source up to the first one that
\* does not parse.
phase1_until_first_error(cfg, files) ==
    LET upto(file) == SubSeq(file, 1,
                             IF \E k \in DOMAIN file : file[k].ts = 0
                             THEN (CHOOSE k \in DOMAIN file :
                                      /\ file[k].ts = 0
                                      /\ \A j \in 1..(k - 1) : file[j].ts # 0) - 1
                             ELSE Len(file))
        per == [i \in DOMAIN cfg.sources |->
                   process_source(cfg.sources[i],
                                  ById(cfg.templates, cfg.sources[i].template_id),
                                  template_rule_ids(cfg.rulesets, cfg.sources[i].template_id),
                                  cfg.rules, upto(files[i]))]
    IN  [ok |-> TRUE, processed_sources |-> [i \in DOMAIN per |-> per[i].lines]]

\* Phase 1 of analyze and analyze_streaming: every source processed, or Err.
phase1(cfg, files) ==
    LET per == [i \in DOMAIN cfg.sources |->
                   process_source(cfg.sources[i],
                                  ById(cfg.templates, cfg.sources[i].template_id),
                                  template_rule_ids(cfg.rulesets, cfg.sources[i].template_id),
                                  cfg.rules, files[i])]
    IN  IF \E i \in DOMAIN per : ~per[i].ok
        THEN [ok |-> FALSE, processed_sources |-> <<>>]
        ELSE [ok |-> TRUE, processed_sources |-> [i \in DOMAIN per |-> per[i].lines]]

(***************************************************************************)
(* Phase 2 of analyze: the effects of one merged line.                     *)
(***************************************************************************)
StateChange(timestamp, source_id, source_name, state_key, old_value, new_value, rule_id) ==
    [timestamp |-> timestamp, source_id |-> source_id, source_name |-> source_name,
     state_key |-> state_key, old_value |-> old_value, new_value |-> new_value,
     rule_id |-> rule_id]

RuleMatch(rule_id, source_id, log_line, extracted_state) ==
    [rule_id |-> rule_id, source_id |-> source_id, log_line |-> log_line,
     extracted_state |-> extracted_state]

\* source_names.get(&line.source_id).cloned().unwrap_or_default()
SourceNameOf(sm, source_id) ==
    IF source_id \in DOMAIN sm.source_names THEN sm.source_names[source_id] ELSE ""

\* The keys of a HashMap of fields, in the orders its iteration may take.
RECURSIVE Orders(_)
Orders(keys) ==
    IF keys = {} THEN {<<>>}
    ELSE UNION {{<<k>> \o o : o \in Orders(keys \ {k})} : k \in keys}

FieldKeys(json_fields) == {k \in StateKeys : json_fields.fields[k].type # "None"}

\* The body of the loop over json_fields: the map after the insert, and the
\* StateChange it emits (a sequence of length 0 or 1).
json_field(state, line, source_name, key, sv) ==
    LET old == MapGet(state, key)
    IN  [state  |-> MapInsert(state, key, TrackedValue(sv, line.timestamp)),
         change |-> IF Option_ne(old, sv)
                    THEN <<StateChange(line.timestamp, line.source_id, source_name, key,
                                       old, sv, 0)>>
                    ELSE <<>>]

RECURSIVE json_loop(_, _, _, _, _)
json_loop(acc, line, source_name, fields, order) ==
    IF order = <<>> THEN acc
    ELSE LET r == json_field(acc.state, line, source_name, Head(order), fields[Head(order)])
         IN  json_loop([state |-> r.state, changes |-> acc.changes \o r.change],
                       line, source_name, fields, Tail(order))

\* "Apply pre-computed JSON fields as state": [sm, changes].
apply_json_fields(sm, processed, order) ==
    IF ~processed.json_fields.present THEN [sm |-> sm, changes |-> <<>>]
    ELSE LET line == processed.line
             sm1  == Arc_make_mut(sm, line.source_id)
             r    == json_loop([state |-> StateOf(sm1, line.source_id), changes |-> <<>>],
                               line, SourceNameOf(sm, line.source_id),
                               processed.json_fields.fields, order)
         IN  [sm |-> SetStateOf(sm1, line.source_id, r.state), changes |-> r.changes]

\* A rule match applied with its RuleMatch reported only if it changed state.
apply_rule_match_only_on_change(sm, cfg, line, rm) ==
    IF ~HasId(cfg.rules, rm.rule_id)
    THEN [sm |-> sm, changes |-> <<>>, matches |-> <<>>]
    ELSE LET r == apply_mutations(sm, line.source_id, rm.extracted,
                                  ById(cfg.rules, rm.rule_id).extraction_rules,
                                  line.timestamp)
         IN  [sm |-> r.sm,
              changes |-> [k \in DOMAIN r.changes |->
                              StateChange(line.timestamp, line.source_id,
                                          SourceNameOf(sm, line.source_id),
                                          r.changes[k].key, r.changes[k].old,
                                          r.changes[k].new, rm.rule_id)],
              matches |-> IF r.changes = <<>> THEN <<>>
                          ELSE <<RuleMatch(rm.rule_id, line.source_id, line, rm.extracted)>>]

\* "Apply pre-computed rule matches", for one rule match: the state manager,
\* the StateChanges of the rule and its RuleMatch (none when rule_map has no
\* such rule).
apply_rule_match(sm, cfg, line, rm) ==
    IF ~HasId(cfg.rules, rm.rule_id)
    THEN [sm |-> sm, changes |-> <<>>, matches |-> <<>>]
    ELSE LET r == apply_mutations(sm, line.source_id, rm.extracted,
                                  ById(cfg.rules, rm.rule_id).extraction_rules,
                                  line.timestamp)
         IN  [sm |-> r.sm,
              changes |-> [k \in DOMAIN r.changes |->
                              StateChange(line.timestamp, line.source_id,
                                          SourceNameOf(sm, line.source_id),
                                          r.changes[k].key, r.changes[k].old,
                                          r.changes[k].new, rm.rule_id)],
              matches |-> <<RuleMatch(rm.rule_id, line.source_id, line, rm.extracted)>>]

\* What the state holds, by source id and by value (no entry reads as empty).
StateView(sm) ==
    [id \in SourceIds |->
        IF sm.per_source_state[id] = 0 THEN EmptyMap ELSE StateOf(sm, id)]

\* A time range whose start skips nothing.
BeforeStart_ignored(time_range, line) == FALSE

\* Whether the time range skips the line (before start) or ends the run
\* (after end); 0 is None.
BeforeStart(time_range, line) == time_range.start # 0 /\ line.timestamp < time_range.start

\* An end of the time range that shuts out the line whose timestamp equals it.
AfterEnd_exclusive(time_range, line) ==
    time_range.end # 0 /\ line.timestamp >= time_range.end

AfterEnd(time_range, line) == time_range.end # 0 /\ line.timestamp > time_range.end

RECURSIVE analyze_rules(_, _, _, _)
analyze_rules(run, cfg, line, rule_matches) ==
    IF rule_matches = <<>> THEN run
    ELSE LET r == apply_rule_match(run.state_manager, cfg, line, Head(rule_matches))
         IN  analyze_rules([run EXCEPT !.state_manager = r.sm,
                                       !.all_state_changes = @ \o r.changes,
                                       !.all_rule_matches = @ \o r.matches],
                           cfg, line, Tail(rule_matches))

\* The record of one processed line, kept beside the run for the properties:
\* the state manager after the line's effects, the progress before and after
\* its pattern evaluation, and the ids of the patterns it completed.
LineRecord(line, sm, progress_before, e) ==
    [line |-> line, sm |-> sm, progress_before |-> progress_before,
     progress_after |-> e.progress,
     matched |-> [k \in DOMAIN e.matches |-> e.matches[k].pattern_id]]

\* The pattern evaluation of a line, with the matches stamped and collected.
analyze_patterns(run, cfg, line) ==
    LET e == evaluate_patterns(run.pattern_eval, cfg.patterns, run.state_manager)
    IN  [run EXCEPT !.state_manager = e.sm,
                    !.pattern_eval = [progress |-> e.progress],
                    !.all_pattern_matches =
                        @ \o [k \in DOMAIN e.matches |->
                                 [e.matches[k] EXCEPT !.timestamp = line.timestamp]],
                    !.ghost = Append(@, LineRecord(line, run.state_manager,
                                                   run.pattern_eval.progress, e))]

\* The body with the rule matches applied before the JSON fields.
analyze_line_rules_first(run, cfg, processed, order) ==
    LET r1 == analyze_rules(run, cfg, processed.line, processed.rule_matches)
        j  == apply_json_fields(r1.state_manager, processed, order)
        r2 == [r1 EXCEPT !.state_manager = j.sm,
                         !.all_state_changes = @ \o j.changes]
    IN  analyze_patterns(r2, cfg, processed.line)

\* The body of the Phase 2 loop of analyze for a line inside the time range;
\* order is the iteration order of the line's json_fields.
analyze_line(run, cfg, processed, order) ==
    LET j  == apply_json_fields(run.state_manager, processed, order)
        r1 == [run EXCEPT !.state_manager = j.sm,
                          !.all_state_changes = @ \o j.changes]
        r2 == analyze_rules(r1, cfg, processed.line, processed.rule_matches)
    IN  analyze_patterns(r2, cfg, processed.line)

(***************************************************************************)
(* The inputs of the analysis runs: two sources, "server" with plain text  *)
(* lines and rules, "client" with JSON lines.                              *)
(***************************************************************************)
Source(id, name, template_id) == [id |-> id, name |-> name, template_id |-> template_id]

SourceTemplate(id, json_timestamp_field) ==
    [id |-> id, json_timestamp_field |-> json_timestamp_field]

Ruleset(id, template_id, rule_ids) ==
    [id |-> id, template_id |-> template_id, rule_ids |-> rule_ids]

BaseSources == <<Source(1, "server", 1), Source(2, "client", 2)>>

BaseTemplates == <<SourceTemplate(1, ""), SourceTemplate(2, "ts")>>

BaseRules ==
    <<LogRule(1, "Any", <<MatchRule(1, "up")>>,
              <<ExtractionRule(1, "Static", "status", NoPattern, String(<<"u", "p">>), "Replace")>>),
      LogRule(2, "Any", <<MatchRule(2, "down")>>,
              <<ExtractionRule(2, "Static", "status", NoPattern,
                               String(<<"d", "o", "w", "n">>), "Replace"),
                ExtractionRule(4, "Clear", "n", NoPattern, None, "Replace")>>),
      LogRule(3, "Any", <<MatchRule(3, "n")>>,
              <<ExtractionRule(3, "Parsed", "n", [key |-> "n", group |-> "n"], None, "Replace")>>)>>

BaseRulesets == <<Ruleset(1, 1, <<1, 2, 3>>)>>

BasePatterns ==
    <<Pattern(1, <<PatternPredicate("server", "status", "Eq", Literal(String(<<"u", "p">>))),
                   PatternPredicate("server", "n", "Gt", Literal(Integer(3)))>>),
      Pattern(2, <<PatternPredicate("server", "status", "Eq", Literal(String(<<"u", "p">>)))>>),
      Pattern(3, <<>>)>>

\* What a line of each source may say, besides its timestamp.
ServerBodies ==
    {[content |-> <<Word("up")>>, fields |-> <<>>],
     [content |-> <<Word("down")>>, fields |-> <<>>],
     [content |-> <<KV("n", <<"5">>)>>, fields |-> <<>>],
     [content |-> <<KV("n", <<"N", "a", "N">>)>>, fields |-> <<>>]}

ClientBodies ==
    {[content |-> <<>>, fields |-> [k \in {"ok", "port"} |-> IF k = "ok" THEN JBool(TRUE) ELSE JInt(1)]],
     [content |-> <<>>, fields |-> [k \in {"port"} |-> JFloat(AsF64(1))]]}

BaseCfg ==
    [sources |-> BaseSources, templates |-> BaseTemplates, rules |-> BaseRules,
     rulesets |-> BaseRulesets, patterns |-> BasePatterns,
     bodies |-> <<ServerBodies, ClientBodies>>]

\* A physical line that does not parse.
BadLine == [ts |-> 0, content |-> <<>>, json |-> NoJson]

\* The physical lines a file of a source with the given template may hold.
PhysLines(template, bodies) ==
    {BadLine} \cup
    {[ts |-> t, content |-> b.content,
      json |-> IF template.json_timestamp_field = "" THEN NoJson
               ELSE [present |-> TRUE,
                     object  |-> [k \in DOMAIN b.fields \cup {template.json_timestamp_field} |->
                                     IF k = template.json_timestamp_field
                                     THEN JString(TsText(t))
                                     ELSE b.fields[k]]]]
        : t \in 1..MaxTs, b \in bodies}

\* Most lines over all the files of an analysis run.
MaxLines == 3

\* The lengths of the two files of a run.
FileLengths == {n \in (0..MaxLines) \X (0..MaxLines) : n[1] + n[2] <= MaxLines}

PhysLinesOf(cfg, i) ==
    PhysLines(ById(cfg.templates, cfg.sources[i].template_id), cfg.bodies[i])

\* The files of the two sources of cfg, by source index.
FilesOf(cfg) ==
    UNION {{<<f1, f2>> : f1 \in [1..n[1] -> PhysLinesOf(cfg, 1)],
                         f2 \in [1..n[2] -> PhysLinesOf(cfg, 2)]} : n \in FileLengths}

\* The time ranges of the runs: each bound absent (0) or set.
TimeRanges == [start : {0, MaxTs}, end : {0, MaxTs - 1}]

\* The inputs of the runs that compare analyze and analyze_streaming: the
\* same sources, rules and patterns, over fewer bodies and time ranges.
StreamServerBodies ==
    {[content |-> <<Word("up")>>, fields |-> <<>>],
     [content |-> <<Word("down")>>, fields |-> <<>>],
     [content |-> <<Word("up"), KV("n", <<"5">>)>>, fields |-> <<>>]}

StreamClientBodies ==
    {[content |-> <<>>, fields |-> [k \in {"port"} |-> JInt(1)]]}

StreamCfg == [BaseCfg EXCEPT !.bodies = <<StreamServerBodies, StreamClientBodies>>]

\* The files of the comparison runs keep the order the engine takes for
\* granted of a source: the timestamps of the lines that parse do not decrease.
Monotonic(file) ==
    \A j, k \in DOMAIN file :
        (j < k /\ file[j].ts # 0 /\ file[k].ts # 0) => file[j].ts <= file[k].ts

StreamFiles == {fs \in FilesOf(StreamCfg) : Monotonic(fs[1]) /\ Monotonic(fs[2])}

StreamTimeRanges == {[start |-> 0, end |-> 0], [start |-> MaxTs, end |-> 0],
                     [start |-> 0, end |-> MaxTs - 1]}

(***************************************************************************)
(* analyze.                                                                *)
(***************************************************************************)
NoMerger == [heap |-> {}, iters |-> <<>>]

\* analyze, entered: the lookups are built and Phase 1 is to run.
analyze_start(cfg) ==
    [pc |-> "phase1", result |-> "none", merger |-> NoMerger,
     state_manager |-> StateManager_new(cfg.sources),
     pattern_eval |-> PatternEvaluator_new(cfg.patterns),
     all_rule_matches |-> <<>>, all_pattern_matches |-> <<>>, all_state_changes |-> <<>>,
     ghost |-> <<>>]

InitAnalyze ==
    /\ \E files \in FilesOf(BaseCfg), tr \in TimeRanges :
           inp = [cfg |-> BaseCfg, files |-> files, time_range |-> tr]
    /\ an = analyze_start(BaseCfg)
    /\ mg = Idle
    /\ pm = Idle
    /\ st = Idle
    /\ chan = Idle

\* Phase 1 of analyze: an Err is returned to the caller.
AnalyzePhase1 ==
    /\ an.pc = "phase1"
    /\ LET p == phase1(inp.cfg, inp.files)
       IN  an' = IF p.ok
                 THEN [an EXCEPT !.pc = "phase2",
                                 !.merger = ProcessedLineMerger_new(p.processed_sources)]
                 ELSE [an EXCEPT !.pc = "done", !.result = "err"]
    /\ UNCHANGED <<inp, mg, pm, st, chan>>

\* One iteration of the Phase 2 loop of analyze.
AnalyzeLine ==
    /\ an.pc = "phase2"
    /\ \E item \in ProcessedHeapTop(an.merger.heap) :
           LET processed == item.processed
               run == [an EXCEPT !.merger = ProcessedLineMerger_next(an.merger, item)]
           IN  IF BeforeStart(inp.time_range, processed.line)
               THEN an' = run
               ELSE IF AfterEnd(inp.time_range, processed.line)
               THEN an' = [run EXCEPT !.pc = "done", !.result = "ok"]
               ELSE \E order \in Orders(FieldKeys(processed.json_fields)) :
                        an' = analyze_line(run, inp.cfg, processed, order)
    /\ UNCHANGED <<inp, mg, pm, st, chan>>

\* The merger is exhausted: analyze returns Ok(AnalysisResult).
AnalyzeReturn ==
    /\ an.pc = "phase2"
    /\ an.merger.heap = {}
    /\ an' = [an EXCEPT !.pc = "done", !.result = "ok"]
    /\ UNCHANGED <<inp, mg, pm, st, chan>>

NextAnalyze == AnalyzePhase1 \/ AnalyzeLine \/ AnalyzeReturn

Spec == InitAnalyze /\ [][NextAnalyze]_vars

(***************************************************************************)
(* analyze_streaming.  Each tx.send is a step of its own, so that the      *)
(* receiver may be dropped between any two of them.  The events sent are   *)
(* kept as a history, and the handles inside them count as alive.          *)
(***************************************************************************)
Event(type, payload) == [type |-> type, payload |-> payload]

Progress(lines_processed) == Event("Progress", [lines_processed |-> lines_processed])

\* A Complete event that reports the number of StateChanges as the number of
\* RuleMatches and the other way round.
Complete_totals_swapped(total_lines, total_rule_matches, total_pattern_matches, total_state_changes) ==
    Event("Complete", [total_lines |-> total_lines,
                       total_rule_matches |-> total_state_changes,
                       total_pattern_matches |-> total_pattern_matches,
                       total_state_changes |-> total_rule_matches])

Complete(total_lines, total_rule_matches, total_pattern_matches, total_state_changes) ==
    Event("Complete", [total_lines |-> total_lines,
                       total_rule_matches |-> total_rule_matches,
                       total_pattern_matches |-> total_pattern_matches,
                       total_state_changes |-> total_state_changes])

\* std::sync::mpsc::channel(): nothing sent, the receiver alive.
channel == [rx_alive |-> TRUE, sent |-> <<>>]

\* The Progress event is sent when lines_processed is a multiple of this.
ProgressEvery == 500

\* A send whose failure is not looked at: the run goes on at next_pc.
send_ignoring_failure(run, ch, event, next_pc) ==
    IF ch.rx_alive
    THEN [st   |-> [run EXCEPT !.pc = next_pc, !.attempts = @ + 1],
          chan |-> [ch EXCEPT !.sent = Append(@, event)]]
    ELSE [st   |-> [run EXCEPT !.pc = next_pc, !.attempts = @ + 1, !.send_failed = TRUE],
          chan |-> ch]

\* A send in the loop that goes on after a failure.
send_or_continue(run, ch, event, next_pc) ==
    send_ignoring_failure(run, ch, event, next_pc)

\* if tx.send(event).is_err() { return Ok(()); }: the event is queued and the
\* run goes on at next_pc, or the receiver is gone and the run returns Ok(()).
send_or_return(run, ch, event, next_pc) ==
    IF ch.rx_alive
    THEN [st   |-> [run EXCEPT !.pc = next_pc, !.attempts = @ + 1],
          chan |-> [ch EXCEPT !.sent = Append(@, event)]]
    ELSE [st   |-> [run EXCEPT !.pc = "done", !.result = "ok", !.attempts = @ + 1,
                               !.send_failed = TRUE],
          chan |-> ch]

NoLine == [pc |-> "none"]

\* analyze_streaming, entered: attempts and send_failed record the calls of
\* tx.send and whether one has failed, rule_log what each apply_mutations of
\* the run was given and returned.
analyze_streaming_start(cfg) ==
    [pc |-> "phase1", result |-> "none", merger |-> NoMerger,
     state_manager |-> StateManager_new(cfg.sources),
     pattern_eval |-> PatternEvaluator_new(cfg.patterns),
     lines_processed |-> 0, total_rule_matches |-> 0,
     total_pattern_matches |-> 0, total_state_changes |-> 0,
     processed |-> NoLine, json_left |-> <<>>, rules_left |-> <<>>,
     changes_left |-> <<>>, rm |-> NoLine, pmatches_left |-> <<>>,
     attempts |-> 0, send_failed |-> FALSE, ghost |-> <<>>, rule_log |-> <<>>]

InitStreaming ==
    /\ \E files \in StreamFiles, tr \in StreamTimeRanges :
           inp = [cfg |-> StreamCfg, files |-> files, time_range |-> tr]
    /\ an = analyze_start(StreamCfg)
    /\ st = analyze_streaming_start(StreamCfg)
    /\ chan = channel
    /\ mg = Idle
    /\ pm = Idle

\* Phase 1 of analyze_streaming, called once analyze has returned: the `?`
\* returns an Err to the caller, and nothing is sent.
StreamPhase1 ==
    /\ an.pc = "done"
    /\ st.pc = "phase1"
    /\ LET p == phase1(inp.cfg, inp.files)
       IN  st' = IF p.ok
                 THEN [st EXCEPT !.pc = "loop",
                                 !.merger = ProcessedLineMerger_new(p.processed_sources)]
                 ELSE [st EXCEPT !.pc = "done", !.result = "err"]
    /\ UNCHANGED <<inp, mg, pm, an, chan>>

\* A head of the loop that counts a line before it looks at the time range.
StreamNextLine_counts_skipped ==
    /\ st.pc = "loop"
    /\ \E item \in ProcessedHeapTop(st.merger.heap) :
           LET processed == item.processed
               line == processed.line
               run == [st EXCEPT !.merger = ProcessedLineMerger_next(st.merger, item),
                                 !.lines_processed = @ + 1]
           IN  IF BeforeStart(inp.time_range, line)
               THEN st' = run
               ELSE IF AfterEnd(inp.time_range, line)
               THEN st' = [run EXCEPT !.pc = "complete"]
               ELSE \E order \in Orders(FieldKeys(processed.json_fields)) :
                        st' = [run EXCEPT
                                  !.processed = processed,
                                  !.state_manager =
                                      IF processed.json_fields.present
                                      THEN Arc_make_mut(@, line.source_id) ELSE @,
                                  !.json_left = order,
                                  !.rules_left = processed.rule_matches,
                                  !.pc = IF order = <<>> THEN "rules" ELSE "json"]
    /\ UNCHANGED <<inp, mg, pm, an, chan>>

\* The head of the Phase 2 loop: the next merged line, the time range, the
\* count of the line and the make_mut before its JSON fields.
StreamNextLine ==
    /\ st.pc = "loop"
    /\ \E item \in ProcessedHeapTop(st.merger.heap) :
           LET processed == item.processed
               line == processed.line
               run == [st EXCEPT !.merger = ProcessedLineMerger_next(st.merger, item)]
           IN  IF BeforeStart(inp.time_range, line)
               THEN st' = run
               ELSE IF AfterEnd(inp.time_range, line)
               THEN st' = [run EXCEPT !.pc = "complete"]
               ELSE \E order \in Orders(FieldKeys(processed.json_fields)) :
                        st' = [run EXCEPT
                                  !.lines_processed = @ + 1,
                                  !.processed = processed,
                                  !.state_manager =
                                      IF processed.json_fields.present
                                      THEN Arc_make_mut(@, line.source_id) ELSE @,
                                  !.json_left = order,
                                  !.rules_left = processed.rule_matches,
                                  !.pc = IF order = <<>> THEN "rules" ELSE "json"]
    /\ UNCHANGED <<inp, mg, pm, an, chan>>

\* The merger is exhausted.
StreamLoopEnd ==
    /\ st.pc = "loop"
    /\ st.merger.heap = {}
    /\ st' = [st EXCEPT !.pc = "complete"]
    /\ UNCHANGED <<inp, mg, pm, an, chan>>

\* One iteration of the loop over json_fields: the insert, and the send of the
\* StateChange if old and new differ.
StreamJsonField ==
    /\ st.pc = "json"
    /\ LET line == st.processed.line
           key  == Head(st.json_left)
           r    == json_field(StateOf(st.state_manager, line.source_id), line,
                              SourceNameOf(st.state_manager, line.source_id), key,
                              st.processed.json_fields.fields[key])
           next_pc == IF Tail(st.json_left) = <<>> THEN "rules" ELSE "json"
           run  == [st EXCEPT !.state_manager = SetStateOf(@, line.source_id, r.state),
                              !.json_left = Tail(@)]
       IN  IF r.change = <<>>
           THEN /\ st' = [run EXCEPT !.pc = next_pc]
                /\ chan' = chan
           ELSE LET o == send_or_return([run EXCEPT !.total_state_changes = @ + 1], chan,
                                        Event("StateChange", r.change[1]), next_pc)
                IN  st' = o.st /\ chan' = o.chan
    /\ UNCHANGED <<inp, mg, pm, an>>

\* The head of the loop over rule_matches for a rule match that rule_map has:
\* apply_mutations, with the StateChanges and the RuleMatch still to send.
stream_rule_match(run, cfg, line, rm) ==
    LET r == apply_mutations(run.state_manager, line.source_id, rm.extracted,
                             ById(cfg.rules, rm.rule_id).extraction_rules, line.timestamp)
    IN  [run EXCEPT
            !.state_manager = r.sm,
            !.changes_left =
                [k \in DOMAIN r.changes |->
                    StateChange(line.timestamp, line.source_id,
                                SourceNameOf(run.state_manager, line.source_id),
                                r.changes[k].key, r.changes[k].old, r.changes[k].new,
                                rm.rule_id)],
            !.rm = RuleMatch(rm.rule_id, line.source_id, line, rm.extracted),
            !.rule_log = Append(@, [rm |-> rm, line |-> line, changes |-> r.changes]),
            !.pc = "changes"]

\* The next rule match of the line: skipped when rule_map has no such rule.
StreamRule ==
    /\ st.pc = "rules"
    /\ st.rules_left # <<>>
    /\ LET rm  == Head(st.rules_left)
           run == [st EXCEPT !.rules_left = Tail(@)]
       IN  st' = IF HasId(inp.cfg.rules, rm.rule_id)
                 THEN stream_rule_match(run, inp.cfg, st.processed.line, rm)
                 ELSE run
    /\ UNCHANGED <<inp, mg, pm, an, chan>>

\* The send of the next StateChange of the rule.
StreamSendChange ==
    /\ st.pc = "changes"
    /\ st.changes_left # <<>>
    /\ LET o == send_or_return([st EXCEPT !.total_state_changes = @ + 1,
                                          !.changes_left = Tail(@)],
                               chan, Event("StateChange", Head(st.changes_left)), "changes")
       IN  st' = o.st /\ chan' = o.chan
    /\ UNCHANGED <<inp, mg, pm, an>>

\* A send of the RuleMatch that does not wait for the StateChanges of its rule.
StreamSendRuleMatch_before_changes ==
    /\ st.pc = "changes"
    /\ IF st.rm # NoLine
       THEN LET o == send_or_return([st EXCEPT !.total_rule_matches = @ + 1, !.rm = NoLine],
                                    chan, Event("RuleMatch", st.rm), "changes")
            IN  st' = o.st /\ chan' = o.chan
       ELSE /\ st.changes_left = <<>>
            /\ st' = [st EXCEPT !.pc = "rules"]
            /\ chan' = chan
    /\ UNCHANGED <<inp, mg, pm, an>>

\* The send of the RuleMatch, after the StateChanges of its rule.
StreamSendRuleMatch ==
    /\ st.pc = "changes"
    /\ st.changes_left = <<>>
    /\ LET o == send_or_return([st EXCEPT !.total_rule_matches = @ + 1], chan,
                               Event("RuleMatch", st.rm), "rules")
       IN  st' = o.st /\ chan' = o.chan
    /\ UNCHANGED <<inp, mg, pm, an>>

\* evaluate_patterns, once the rule matches of the line are applied.
StreamPatterns ==
    /\ st.pc = "rules"
    /\ st.rules_left = <<>>
    /\ LET e == evaluate_patterns(st.pattern_eval, inp.cfg.patterns, st.state_manager)
       IN  st' = [st EXCEPT !.state_manager = e.sm,
                            !.pattern_eval = [progress |-> e.progress],
                            !.pmatches_left = e.matches,
                            !.ghost = Append(@, LineRecord(st.processed.line, st.state_manager,
                                                           st.pattern_eval.progress, e)),
                            !.pc = "pmatches"]
    /\ UNCHANGED <<inp, mg, pm, an, chan>>

\* The send of the next PatternMatch, stamped with the line's timestamp.
StreamSendPattern ==
    /\ st.pc = "pmatches"
    /\ st.pmatches_left # <<>>
    /\ LET m == [Head(st.pmatches_left) EXCEPT !.timestamp = st.processed.line.timestamp]
           o == send_or_return([st EXCEPT !.total_pattern_matches = @ + 1,
                                          !.pmatches_left = Tail(@)],
                               chan, Event("PatternMatch", m), "pmatches")
       IN  st' = o.st /\ chan' = o.chan
    /\ UNCHANGED <<inp, mg, pm, an>>

\* The end of the loop body: the Progress event on every ProgressEvery-th line.
StreamProgress ==
    /\ st.pc = "pmatches"
    /\ st.pmatches_left = <<>>
    /\ IF st.lines_processed % ProgressEvery = 0
       THEN LET o == send_or_return(st, chan, Progress(st.lines_processed), "loop")
            IN  st' = o.st /\ chan' = o.chan
       ELSE st' = [st EXCEPT !.pc = "loop"] /\ chan' = chan
    /\ UNCHANGED <<inp, mg, pm, an>>

\* let _ = tx.send(Complete {..}); Ok(())
StreamComplete ==
    /\ st.pc = "complete"
    /\ LET o == send_ignoring_failure(
                    st, chan,
                    Complete(st.lines_processed, st.total_rule_matches,
                             st.total_pattern_matches, st.total_state_changes),
                    "done")
       IN  st' = [o.st EXCEPT !.result = "ok"] /\ chan' = o.chan
    /\ UNCHANGED <<inp, mg, pm, an>>

\* The receiver is dropped while analyze_streaming runs.
DropReceiver ==
    /\ st.pc \notin {"phase1", "done"}
    /\ chan.rx_alive
    /\ chan' = [chan EXCEPT !.rx_alive = FALSE]
    /\ UNCHANGED <<inp, mg, pm, an, st>>

NextStreaming ==
    \/ StreamPhase1 \/ StreamNextLine \/ StreamLoopEnd \/ StreamJsonField
    \/ StreamRule \/ StreamSendChange \/ StreamSendRuleMatch
    \/ StreamPatterns \/ StreamSendPattern \/ StreamProgress \/ StreamComplete
    \/ DropReceiver

SpecStreaming == InitStreaming /\ [][NextAnalyze \/ NextStreaming]_vars

(***************************************************************************)
(* The merger runs: both mergers over the same files.                      *)
(***************************************************************************)
\* The physical lines a file of the merger runs may hold.
MergePhysLines == [ts : 0..MaxTs, content : {<<>>}, json : {NoJson}]

AllParse(files) == \A i \in DOMAIN files : \A k \in DOMAIN files[i] : files[i][k].ts # 0

\* The per-source Vecs Phase 1 hands to the ProcessedLineMerger when no rule applies.
MergeProcessed(files) ==
    [i \in DOMAIN files |->
        [k \in DOMAIN files[i] |->
            ProcessedLine(LogLineIterator_item(i + 1, PlainTemplate, files[i], k).line, <<>>, NoFields)]]

InitMerge ==
    /\ inp \in [files : [MergeSourceIdx -> SeqsUpTo(MergePhysLines, MaxLen)]]
    /\ mg = MergedLogStream_new(inp.files)
    /\ pm = IF AllParse(inp.files)
            THEN [built |-> TRUE, merger |-> ProcessedLineMerger_new(MergeProcessed(inp.files)),
                  out |-> <<>>, done |-> FALSE]
            ELSE [built |-> FALSE, merger |-> [heap |-> {}, iters |-> <<>>],
                  out |-> <<>>, done |-> TRUE]
    /\ an = Idle
    /\ st = Idle
    /\ chan = Idle

\* One call of MergedLogStream::next that pops an item.
MergedNext ==
    /\ ~mg.done
    /\ \E item \in HeapTop(mg.heap) :
           mg' = MergedLogStream_next(mg, inp.files, item)
    /\ UNCHANGED <<inp, pm, an, st, chan>>

\* The call of MergedLogStream::next on an empty heap: None.
MergedEnd ==
    /\ ~mg.done
    /\ mg.heap = {}
    /\ mg' = [mg EXCEPT !.done = TRUE]
    /\ UNCHANGED <<inp, pm, an, st, chan>>

\* One call of ProcessedLineMerger::next that pops an item.
ProcessedNext ==
    /\ ~pm.done
    /\ \E item \in ProcessedHeapTop(pm.merger.heap) :
           pm' = [pm EXCEPT !.merger = ProcessedLineMerger_next(pm.merger, item),
                            !.out = Append(@, item.processed)]
    /\ UNCHANGED <<inp, mg, an, st, chan>>

\* The call of ProcessedLineMerger::next on an empty heap: None.
ProcessedEnd ==
    /\ ~pm.done
    /\ pm.merger.heap = {}
    /\ pm' = [pm EXCEPT !.done = TRUE]
    /\ UNCHANGED <<inp, mg, an, st, chan>>

NextMerge == MergedNext \/ MergedEnd \/ ProcessedNext \/ ProcessedEnd

SpecMerge == InitMerge /\ [][NextMerge]_vars

\* Every file's parseable lines are in non-decreasing timestamp order.
MonotonicFiles ==
    \A i \in DOMAIN inp.files :
        \A j, k \in DOMAIN inp.files[i] :
            (j < k /\ inp.files[i][j].ts # 0 /\ inp.files[i][k].ts # 0)
                => inp.files[i][j].ts <= inp.files[i][k].ts

\* The entries MergedLogStream has emitted (the Ok items), in order.
MergedLines ==
    LET oks == SelectSeq(mg.out, LAMBDA r : r.ok)
    IN  [k \in DOMAIN oks |-> oks[k].line]

ProcessedLines == [k \in DOMAIN pm.out |-> pm.out[k].line]

NonDecreasing(lines) ==
    \A i, j \in DOMAIN lines : i < j => lines[i].timestamp <= lines[j].timestamp

\* C1: with monotonic sources, what MergedLogStream and ProcessedLineMerger
\* have emitted is non-decreasing by timestamp.
C1_MergedNonDecreasing ==
    MonotonicFiles => NonDecreasing(MergedLines) /\ NonDecreasing(ProcessedLines)

\* Both mergers have emitted four interleaved lines of two monotonic sources.
C1_Witness ==
    /\ MonotonicFiles
    /\ mg.done /\ pm.done
    /\ Len(MergedLines) = 4 /\ Len(ProcessedLines) = 4
    /\ \E i \in 1..3 : /\ ProcessedLines[i].source_id > ProcessedLines[i + 1].source_id
                       /\ ProcessedLines[i].timestamp < ProcessedLines[i + 1].timestamp
    /\ \E i \in 1..3 : /\ MergedLines[i].source_id > MergedLines[i + 1].source_id
                       /\ MergedLines[i].timestamp < MergedLines[i + 1].timestamp

TiesBySourceIndex(lines) ==
    \A i, j \in DOMAIN lines :
        (/\ i < j
         /\ lines[i].timestamp = lines[j].timestamp
         /\ lines[i].source_id # lines[j].source_id)
            => lines[i].source_id < lines[j].source_id

\* C2: with monotonic sources, of two emitted entries with equal timestamps
\* from different sources the one of the smaller registration index comes first.
C2_TiesBySourceIndex ==
    MonotonicFiles => TiesBySourceIndex(MergedLines) /\ TiesBySourceIndex(ProcessedLines)

\* Both mergers have emitted two entries with one timestamp from two sources.
C2_Witness ==
    /\ MonotonicFiles
    /\ \E i, j \in DOMAIN MergedLines :
           /\ i < j
           /\ MergedLines[i].timestamp = MergedLines[j].timestamp
           /\ MergedLines[i].source_id # MergedLines[j].source_id
    /\ \E i, j \in DOMAIN ProcessedLines :
           /\ i < j
           /\ ProcessedLines[i].timestamp = ProcessedLines[j].timestamp
           /\ ProcessedLines[i].source_id # ProcessedLines[j].source_id

(***************************************************************************)
(* Properties of the analysis runs.                                        *)
(***************************************************************************)
\* The StateChanges a run has put out so far.
StateChangesOf(run) == Range(run.all_state_changes)

\* The patterns of the run, by index.
PatternIdx == DOMAIN inp.cfg.patterns

PredicatesOf(i) == inp.cfg.patterns[i].predicates

\* Some predicate before the progress pointer of pattern i (one satisfied
\* earlier) is false on the state the line record g was evaluated on.
EarlierFails(g, i) ==
    \E k \in 1..g.progress_before[i] : ~evaluate_predicate(PredicatesOf(i)[k], g.sm)

\* The predicate at the progress pointer of pattern i holds on that state.
CurrentHolds(g, i) ==
    /\ PredicatesOf(i) # <<>>
    /\ evaluate_predicate(PredicatesOf(i)[g.progress_before[i] + 1], g.sm)

\* The evaluation of line record g took the progress of pattern i from above
\* 0 to 0 and did not complete the pattern.
ResetWithoutMatch(g, i) ==
    /\ g.progress_before[i] > 0
    /\ g.progress_after[i] = 0
    /\ inp.cfg.patterns[i].id \notin Range(g.matched)

\* For each PatternMatch of a run, in output order, the index of the record of
\* the line that completed it.
RECURSIVE MatchLines(_)
MatchLines(ghost) ==
    IF ghost = <<>> THEN <<>>
    ELSE LET n == Len(ghost)
         IN  MatchLines(SubSeq(ghost, 1, n - 1)) \o [j \in DOMAIN ghost[n].matched |-> n]

\* What a snapshot's handles read now, by source name.
SnapshotValue(sm, state_snapshot) ==
    [nm \in DOMAIN state_snapshot |-> sm.arcs[state_snapshot[nm]].map]

\* The per-source state of a state manager, by source name.
StateByName(sm) ==
    [nm \in {sm.source_names[id] : id \in SnapshotIds(sm)} |->
        StateOf(sm, CHOOSE id \in SnapshotIds(sm) : sm.source_names[id] = nm)]

\* C3 (as stated): every StateChange a run puts out, from a rule or from the
\* JSON fields of a line, carries an old value and a new value that differ, so
\* that a write which leaves the stored value as it was puts out none.
C3_NoNoopStateChange ==
    an # Idle => \A sc \in StateChangesOf(an) : sc.old_value # sc.new_value

\* C4 (as stated): after every evaluation in which a predicate before the
\* progress pointer is false the progress is 0, and a reset without a match
\* happens for no other reason.
C4_ResetWheneverEarlierFails ==
    an # Idle =>
        \A k \in DOMAIN an.ghost : \A i \in PatternIdx :
            /\ EarlierFails(an.ghost[k], i) => an.ghost[k].progress_after[i] = 0
            /\ ResetWithoutMatch(an.ghost[k], i) => EarlierFails(an.ghost[k], i)

\* C4 (amended): the progress of a pattern is reset to 0 without a match
\* exactly when the predicate at the progress pointer holds while some earlier
\* predicate does not; while the predicate at the pointer does not hold the
\* progress is kept as it is, whatever the earlier predicates say.
C4_ResetIffCurrentHoldsAndEarlierFails ==
    an # Idle =>
        \A k \in DOMAIN an.ghost : \A i \in PatternIdx :
            LET g == an.ghost[k]
            IN  /\ ResetWithoutMatch(g, i) <=> (CurrentHolds(g, i) /\ EarlierFails(g, i))
                /\ ~CurrentHolds(g, i) => g.progress_after[i] = g.progress_before[i]

\* A line was evaluated that reset a pattern in progress, and another that
\* left a pattern in progress although an earlier predicate had become false.
C4_Witness ==
    /\ an # Idle
    /\ \E k \in DOMAIN an.ghost : \E i \in PatternIdx : ResetWithoutMatch(an.ghost[k], i)
    /\ \E k \in DOMAIN an.ghost : \E i \in PatternIdx :
           /\ EarlierFails(an.ghost[k], i)
           /\ an.ghost[k].progress_after[i] > 0

\* The lines of a run after which the only predicate of pattern i holds.
LinesWhereHolds(run, i) ==
    {k \in DOMAIN run.ghost : evaluate_predicate(PredicatesOf(i)[1], run.ghost[k].sm)}

MatchesOf(run, i) ==
    SelectSeq(run.all_pattern_matches, LAMBDA m : m.pattern_id = inp.cfg.patterns[i].id)

\* C5: a pattern with exactly one predicate has as many PatternMatches in the
\* run as there are processed lines after which the predicate holds.
C5_SinglePredicateRefires ==
    an # Idle =>
        \A i \in PatternIdx :
            Len(PredicatesOf(i)) = 1 =>
                Len(MatchesOf(an, i)) = Cardinality(LinesWhereHolds(an, i))

\* A single-predicate pattern fired on two lines, and a third line was
\* processed after which its predicate did not hold.
C5_Witness ==
    /\ an # Idle
    /\ \E i \in PatternIdx :
           /\ Len(PredicatesOf(i)) = 1
           /\ Len(MatchesOf(an, i)) >= 2
           /\ LinesWhereHolds(an, i) # DOMAIN an.ghost

\* C6: a pattern with no predicates has no PatternMatch in any run.
C6_EmptyPatternNeverMatches ==
    an # Idle =>
        \A i \in PatternIdx : PredicatesOf(i) = <<>> => MatchesOf(an, i) = <<>>

\* The patterns, one of them empty, were evaluated on three lines and some
\* other pattern matched.
C6_Witness ==
    /\ an # Idle
    /\ \E i \in PatternIdx : PredicatesOf(i) = <<>>
    /\ Len(an.ghost) >= 3
    /\ an.all_pattern_matches # <<>>

\* The payloads of the events of a type that analyze_streaming has sent.
Streamed(type) ==
    LET es == SelectSeq(chan.sent, LAMBDA e : e.type = type)
    IN  [k \in DOMAIN es |-> es[k].payload]

\* The snapshot of each of the PatternMatches put out reads, now, what the
\* per-source state was when the effects of the completing line had been
\* applied (ghost holds the records of the lines, sm is the state manager now).
SnapshotsKeepLineState(matches, ghost, sm) ==
    LET ml == MatchLines(ghost)
    IN  /\ Len(matches) <= Len(ml)
        /\ \A k \in DOMAIN matches :
               /\ matches[k].pattern_id = ghost[ml[k]].matched[k - Cardinality({j \in DOMAIN ml : ml[j] < ml[k]})]
               /\ SnapshotValue(sm, matches[k].state_snapshot) = StateByName(ghost[ml[k]].sm)

\* The state of a source has changed since some snapshot put out took it.
SnapshotOutlived(matches, sm) ==
    \E k \in DOMAIN matches : \E nm \in DOMAIN matches[k].state_snapshot :
        SnapshotValue(sm, matches[k].state_snapshot)[nm] # StateByName(sm)[nm]

\* C7: the state_snapshot of every PatternMatch, of analyze and of
\* analyze_streaming, equals the per-source state as it stood when all effects
\* of the completing line had been applied, and goes on equalling it whatever
\* later lines do to the state manager.
C7_SnapshotKeepsLineState ==
    /\ SnapshotsKeepLineState(an.all_pattern_matches, an.ghost, an.state_manager)
    /\ SnapshotsKeepLineState(Streamed("PatternMatch"), st.ghost, st.state_manager)

\* In both drivers a pattern matched and a later line changed the state of a
\* source its snapshot holds.
C7_Witness ==
    /\ SnapshotOutlived(an.all_pattern_matches, an.state_manager)
    /\ SnapshotOutlived(Streamed("PatternMatch"), st.state_manager)

\* Phase 1 fails on the inputs: a line of some file does not parse.
ParseFails == ~phase1(inp.cfg, inp.files).ok

\* C8 (as stated): when a line fails to parse, analyze_streaming sends an Error
\* event before it terminates, and analyze returns the error to its caller.
C8_ParseFailureSendsError ==
    (ParseFails /\ st.pc = "done") =>
        /\ an.result = "err"
        /\ \E k \in DOMAIN chan.sent : chan.sent[k].type = "Error"

\* How often a rule match occurs in a sequence of them.
CountOf(rm, matches) == Cardinality({k \in DOMAIN matches : matches[k] = rm})

\* Both drivers have returned Ok and the receiver was never dropped.
BothCompleteSinkOpen ==
    /\ an.pc = "done" /\ an.result = "ok"
    /\ st.pc = "done" /\ st.result = "ok"
    /\ chan.rx_alive

\* C9: on the same inputs, with the sink open throughout, the RuleMatches of
\* analyze for a line are, as a multiset, the RuleMatch events analyze_streaming
\* sends for that line.
C9_SameRuleMatchesPerLine ==
    BothCompleteSinkOpen =>
        \A rm \in Range(an.all_rule_matches) \cup Range(Streamed("RuleMatch")) :
            CountOf(rm, an.all_rule_matches) = CountOf(rm, Streamed("RuleMatch"))

\* Both drivers completed with the sink open, and some line has two
\* RuleMatches while another line has none.
C9_Witness ==
    /\ BothCompleteSinkOpen
    /\ \E k \in DOMAIN an.all_rule_matches :
           /\ k > 1
           /\ an.all_rule_matches[k].log_line = an.all_rule_matches[k - 1].log_line
    /\ \E g \in Range(st.ghost) :
           \A rm \in Range(Streamed("RuleMatch")) : rm.log_line # g.line

\* C10: once a send has failed analyze_streaming has returned Ok(()), and from
\* then on it calls send no more and applies nothing more to its state.
C10_FailedSendReturnsAtOnce ==
    /\ [](st.send_failed => (st.pc = "done" /\ st.result = "ok"))
    /\ [][st.send_failed => (st' = st /\ chan' = chan)]_vars

\* A send other than that of Complete failed while lines were still to come.
C10_Witness ==
    /\ st.send_failed
    /\ st.pc = "done"
    /\ st.merger.heap # {}
    /\ chan.sent # <<>>

\* A timestamp no earlier than the start of the run's time range and no later
\* than its end, as far as they are set.
InTimeRange(ts) ==
    /\ inp.time_range.start # 0 => ts >= inp.time_range.start
    /\ inp.time_range.end # 0 => ts <= inp.time_range.end

\* The pre-processed lines of all sources, by source index and position, whose
\* timestamp lies inside the time range of the run.
LinesInRange ==
    LET p == phase1(inp.cfg, inp.files).processed_sources
    IN  {<<i, k>> \in UNION {{i} \X DOMAIN p[i] : i \in DOMAIN p} :
            InTimeRange(p[i][k].line.timestamp)}

\* analyze_streaming has returned Ok without a failed send, the receiver alive.
StreamCompleteSinkOpen ==
    /\ st.pc = "done" /\ st.result = "ok"
    /\ ~st.send_failed
    /\ chan.rx_alive

\* C11: a streaming run without an error and with the sink open sends exactly
\* one Complete event, as its last event; its totals are the numbers of
\* RuleMatch, PatternMatch and StateChange events sent before it, and its
\* total_lines is the number of merged lines inside the time range.
C11_CompleteTotals ==
    StreamCompleteSinkOpen =>
        /\ Len(Streamed("Complete")) = 1
        /\ chan.sent[Len(chan.sent)].type = "Complete"
        /\ LET c == chan.sent[Len(chan.sent)].payload
           IN  /\ c.total_rule_matches = Len(Streamed("RuleMatch"))
               /\ c.total_pattern_matches = Len(Streamed("PatternMatch"))
               /\ c.total_state_changes = Len(Streamed("StateChange"))
               /\ c.total_lines = Cardinality(LinesInRange)

\* A run completed with the sink open whose Complete event counts events of
\* all three kinds, in different numbers, and fewer lines than the files hold.
C11_Witness ==
    /\ StreamCompleteSinkOpen
    /\ LET c == chan.sent[Len(chan.sent)].payload
       IN  /\ c.total_rule_matches > 0
           /\ c.total_pattern_matches > 0
           /\ c.total_state_changes > c.total_rule_matches
           /\ c.total_lines > 0
           /\ c.total_lines < Len(inp.files[1]) + Len(inp.files[2])

\* s is an initial part of t.
IsPrefix(s, t) == Len(s) <= Len(t) /\ SubSeq(t, 1, Len(s)) = s

\* The events the rule applications of a streaming run call for, in the order
\* of the applications: for each, its StateChanges and then its RuleMatch.
RECURSIVE RuleEvents(_)
RuleEvents(log) ==
    IF log = <<>> THEN <<>>
    ELSE LET n == Len(log)
             e == log[n]
         IN  RuleEvents(SubSeq(log, 1, n - 1))
             \o [k \in DOMAIN e.changes |->
                    Event("StateChange",
                          StateChange(e.line.timestamp, e.line.source_id,
                                      SourceNameOf(st.state_manager, e.line.source_id),
                                      e.changes[k].key, e.changes[k].old, e.changes[k].new,
                                      e.rm.rule_id))]
             \o <<Event("RuleMatch",
                        RuleMatch(e.rm.rule_id, e.line.source_id, e.line, e.rm.extracted))>>

\* The RuleMatch events and the StateChange events of rules sent so far.
SentRuleEvents ==
    SelectSeq(chan.sent, LAMBDA e : \/ e.type = "RuleMatch"
                                    \/ e.type = "StateChange" /\ e.payload.rule_id # 0)

\* C12: in the streaming variant the StateChange events a rule causes on a line
\* are all sent before the RuleMatch event of that rule for that line: the rule
\* events sent are, in order, each application's StateChanges and then its
\* RuleMatch.
C12_StateChangesBeforeRuleMatch ==
    IsPrefix(SentRuleEvents, RuleEvents(st.rule_log))

\* A rule's RuleMatch has been sent after two StateChanges of that rule on its
\* line, and another RuleMatch for a rule that changed nothing.
C12_Witness ==
    /\ \E k \in DOMAIN chan.sent :
           /\ k > 2
           /\ chan.sent[k].type = "RuleMatch"
           /\ \A j \in {k - 2, k - 1} :
                  /\ chan.sent[j].type = "StateChange"
                  /\ chan.sent[j].payload.rule_id = chan.sent[k].payload.rule_id
    /\ \E k \in DOMAIN st.rule_log :
           /\ st.rule_log[k].changes = <<>>
           /\ Len(SentRuleEvents) = Len(RuleEvents(st.rule_log))

\* The timestamps of the RuleMatches, StateChanges and PatternMatches that
\* analyze has collected, and of those analyze_streaming has sent.
EmittedTimestamps ==
    {m.log_line.timestamp : m \in Range(an.all_rule_matches) \cup Range(Streamed("RuleMatch"))}
    \cup {c.timestamp : c \in Range(an.all_state_changes) \cup Range(Streamed("StateChange"))}
    \cup {m.timestamp : m \in Range(an.all_pattern_matches) \cup Range(Streamed("PatternMatch"))}

\* C13: under a time range every RuleMatch, StateChange and PatternMatch that
\* analyze or analyze_streaming emits carries a timestamp that is at least the
\* start, if one is set, and at most the end, if one is set.
C13_EventsInsideTimeRange ==
    \A ts \in EmittedTimestamps : InTimeRange(ts)

\* Under a time range with a bound set, both drivers have emitted events of
\* the three kinds, and a line of the files lies outside the range.
C13_Witness ==
    /\ inp.time_range.start # 0 \/ inp.time_range.end # 0
    /\ an.all_rule_matches # <<>> /\ an.all_state_changes # <<>> /\ an.all_pattern_matches # <<>>
    /\ Streamed("RuleMatch") # <<>> /\ Streamed("StateChange") # <<>>
    /\ Streamed("PatternMatch") # <<>>
    /\ \E i \in DOMAIN inp.files : \E k \in DOMAIN inp.files[i] :
           inp.files[i][k].ts # 0 /\ ~InTimeRange(inp.files[i][k].ts)

\* The lines of LinesInRange.
LinesInRangeSet ==
    LET p == phase1(inp.cfg, inp.files).processed_sources
    IN  {p[ik[1]][ik[2]] : ik \in LinesInRange}

\* The lines in the records of a run are exactly the lines inside the time
\* range, each once, and rule_matches holds for each of them the RuleMatches
\* of the rules that matched it.
ProcessedAllInRange(ghost, rule_matches) ==
    LET lines == LinesInRangeSet
    IN  /\ {ghost[k].line : k \in DOMAIN ghost} = {p.line : p \in lines}
        /\ Len(ghost) = Cardinality(lines)
        /\ \A p \in lines :
               Len(SelectSeq(rule_matches, LAMBDA m : m.log_line = p.line)) = Len(p.rule_matches)

\* C14: the bounds of the time range are inclusive and nothing inside them is
\* dropped: on a monotonic merged stream a completed run has processed every
\* line with start <= timestamp <= end, the lines at start and at end too,
\* although it stops at the first line after end.  The run of analyze is
\* looked at when it has returned, before analyze_streaming is entered.
C14_InclusiveBoundsNothingDropped ==
    /\ (an.pc = "done" /\ an.result = "ok" /\ st.pc = "phase1")
           => ProcessedAllInRange(an.ghost, an.all_rule_matches)
    /\ StreamCompleteSinkOpen
           => ProcessedAllInRange(st.ghost, Streamed("RuleMatch"))

\* Both drivers completed a run that was stopped by a line after end, having
\* processed a line whose timestamp is end and matched a rule on it.
C14_Witness ==
    /\ an.pc = "done" /\ an.result = "ok"
    /\ StreamCompleteSinkOpen
    /\ inp.time_range.end # 0
    /\ an.merger.heap # {} /\ st.merger.heap # {}
    /\ \E m \in Range(an.all_rule_matches) : m.log_line.timestamp = inp.time_range.end
    /\ \E m \in Range(Streamed("RuleMatch")) : m.log_line.timestamp = inp.time_range.end

\* A run of the Phase 2 loop of analyze to its end, from `run` on, in which
\* every line's json_fields are iterated in one fixed order.
RECURSIVE analyze_from(_, _, _)
analyze_from(run, cfg, time_range) ==
    IF run.merger.heap = {} THEN run
    ELSE LET item == CHOOSE it \in ProcessedHeapTop(run.merger.heap) : TRUE
             processed == item.processed
             next == [run EXCEPT !.merger = ProcessedLineMerger_next(run.merger, item)]
         IN  IF BeforeStart(time_range, processed.line)
             THEN analyze_from(next, cfg, time_range)
             ELSE IF AfterEnd(time_range, processed.line)
             THEN next
             ELSE analyze_from(
                      analyze_line(next, cfg, processed,
                                   CHOOSE order \in Orders(FieldKeys(processed.json_fields)) : TRUE),
                      cfg, time_range)

\* Another run of analyze on the inputs of the run, Phase 1 having succeeded.
AnotherRun ==
    LET p == phase1(inp.cfg, inp.files)
    IN  analyze_from([analyze_start(inp.cfg) EXCEPT
                          !.merger = ProcessedLineMerger_new(p.processed_sources)],
                     inp.cfg, inp.time_range)

\* The AnalysisResult of a run, its snapshots read by value.
ResultOf(run) ==
    [rule_matches    |-> run.all_rule_matches,
     state_changes   |-> run.all_state_changes,
     pattern_matches |-> [k \in DOMAIN run.all_pattern_matches |->
                             [pattern_id |-> run.all_pattern_matches[k].pattern_id,
                              timestamp  |-> run.all_pattern_matches[k].timestamp,
                              state_snapshot |->
                                  SnapshotValue(run.state_manager,
                                                run.all_pattern_matches[k].state_snapshot)]]]

\* C15 (as stated): two runs of analyze on the same inputs give the same
\* AnalysisResult: the same rule_matches, pattern_matches and state_changes in
\* the same order, the StateChanges of the JSON fields of a line included.
C15_SameResultOnRerun ==
    (an # Idle /\ an.pc = "done" /\ an.result = "ok") => ResultOf(an) = ResultOf(AnotherRun)

(***************************************************************************)
(* analyze with the tasks of Phase 1 run by a pool of workers: a task per  *)
(* source (par_iter over sources) and, inside it, a task per line          *)
(* (into_par_iter over lines), completing in any order.  The runs take     *)
(* their rulesets from RulesetChoices.                                     *)
(***************************************************************************)
\* The rulesets of the runs: one ruleset per template, rules 1 and 3 bound to
\* the servers' template only; or two rulesets of the servers' template,
\* which both list rule 2.
RulesetChoices ==
    {<<Ruleset(1, 1, <<3, 2, 1>>), Ruleset(2, 2, <<2>>)>>,
     <<Ruleset(1, 1, <<3, 2>>), Ruleset(2, 1, <<2, 1>>)>>}

WorkerServerBodies ==
    {[content |-> <<Word("up"), Word("down")>>, fields |-> <<>>],
     [content |-> <<Word("down"), KV("n", <<"5">>)>>, fields |-> <<>>]}

\* The client lines {"ts": .., "status": "down", "n": 5}, whose text the
\* patterns "down" and "n" match, and {"ts": .., "ok": true, "port": 1.5}.
WorkerClientBodies ==
    {[content |-> <<Word("down"), Word("n")>>,
      fields |-> [k \in {"status", "n"} |->
                     IF k = "status" THEN JString(<<"d", "o", "w", "n">>) ELSE JInt(5)]],
     [content |-> <<>>,
      fields |-> [k \in {"ok", "port"} |-> IF k = "ok" THEN JBool(TRUE) ELSE JFloat(3)]]}

WorkerCfgs ==
    {[BaseCfg EXCEPT !.rulesets = rs,
                     !.bodies = <<WorkerServerBodies, WorkerClientBodies>>] : rs \in RulesetChoices}

\* The files of the runs: timestamps that do not decrease within a file, each
\* the first or the last one.
WorkerFiles ==
    {fs \in FilesOf(CHOOSE c \in WorkerCfgs : TRUE) :
        \A i \in DOMAIN fs : /\ Monotonic(fs[i])
                             /\ \A k \in DOMAIN fs[i] : fs[i][k].ts \in {0, 1, MaxTs}}

\* process_source, Step 1: the lines of the file, each Ok(line) or Err.
read_lines(source, template, file) ==
    [k \in DOMAIN file |-> LogLineIterator_item(source.id, template, file, k)]

\* process_source, Step 2: the task of one line.
process_line(template, rule_ids, rules, line) ==
    ProcessedLine([line EXCEPT !.cached_json = NoJson],
                  line_rule_matches(rule_ids, rules, line),
                  line_json_fields(template.json_timestamp_field # "", line))

\* collect() of an indexed parallel iterator into a Vec, taken in the order
\* the tasks completed.
par_collect_as_completed(results, completed) ==
    [j \in DOMAIN completed |-> results[completed[j]]]

\* collect() of an indexed parallel iterator into a Vec: the results by
\* index, in whatever order the tasks completed.
par_collect(results, completed) ==
    [k \in DOMAIN results |-> results[k]]

\* The workers of Phase 1: per source, the lines read ("unread", "err" or
\* "ok"), the line tasks in the order they completed, and the Vec its task
\* returned; the source tasks in the order they completed.
workers_start(cfg) ==
    [lines     |-> [i \in DOMAIN cfg.sources |-> "unread"],
     completed |-> [i \in DOMAIN cfg.sources |-> <<>>],
     returned  |-> [i \in DOMAIN cfg.sources |-> <<>>],
     finished  |-> <<>>,
     processed_sources |-> <<>>,
     reordered |-> FALSE]

\* Tasks of sources and tasks of lines completed in another order than they
\* were spawned in.
Reordered(workers) ==
    /\ \E a, b \in DOMAIN workers.finished : a < b /\ workers.finished[a] > workers.finished[b]
    /\ \E i \in DOMAIN workers.completed :
           \E a, b \in DOMAIN workers.completed[i] :
               a < b /\ workers.completed[i][a] > workers.completed[i][b]

InitWorkers ==
    /\ \E cfg \in WorkerCfgs, files \in WorkerFiles :
           /\ inp = [cfg |-> cfg, files |-> files, time_range |-> [start |-> 0, end |-> 0]]
           /\ an = analyze_start(cfg) @@ [workers |-> workers_start(cfg)]
    /\ mg = Idle
    /\ pm = Idle
    /\ st = Idle
    /\ chan = Idle

TemplateOf(cfg, i) == ById(cfg.templates, cfg.sources[i].template_id)

\* A worker takes the task of source i and reads its lines; an Err ends the task.
WorkerReadLines(i) ==
    /\ an.pc = "phase1"
    /\ an.workers.lines[i] = "unread"
    /\ LET items == read_lines(inp.cfg.sources[i], TemplateOf(inp.cfg, i), inp.files[i])
       IN  an' = IF \E k \in DOMAIN items : ~items[k].ok
                 THEN [an EXCEPT !.workers.lines[i] = "err",
                                 !.workers.finished = Append(@, i)]
                 ELSE [an EXCEPT !.workers.lines[i] = "ok"]
    /\ UNCHANGED <<inp, mg, pm, st, chan>>

\* A worker completes the task of line k of source i.
WorkerLine(i, k) ==
    /\ an.pc = "phase1"
    /\ an.workers.lines[i] = "ok"
    /\ k \in DOMAIN inp.files[i]
    /\ k \notin Range(an.workers.completed[i])
    /\ an' = [an EXCEPT !.workers.completed[i] = Append(@, k)]
    /\ UNCHANGED <<inp, mg, pm, st, chan>>

\* Every line task of source i is complete: process_source returns Ok(processed).
WorkerReturn(i) ==
    /\ an.pc = "phase1"
    /\ an.workers.lines[i] = "ok"
    /\ i \notin Range(an.workers.finished)
    /\ Range(an.workers.completed[i]) = DOMAIN inp.files[i]
    /\ LET template == TemplateOf(inp.cfg, i)
           items    == read_lines(inp.cfg.sources[i], template, inp.files[i])
           rule_ids == template_rule_ids(inp.cfg.rulesets, inp.cfg.sources[i].template_id)
           results  == [k \in DOMAIN items |->
                           process_line(template, rule_ids, inp.cfg.rules, items[k].line)]
       IN  an' = [an EXCEPT !.workers.returned[i] = par_collect(results, an.workers.completed[i]),
                            !.workers.finished = Append(@, i)]
    /\ UNCHANGED <<inp, mg, pm, st, chan>>

\* Every source task is complete: the results are collected and the tasks
\* are gone; an Err is returned to the caller, and Phase 2 starts on the
\* merger otherwise.
WorkersJoin ==
    /\ an.pc = "phase1"
    /\ Range(an.workers.finished) = DOMAIN inp.cfg.sources
    /\ an' = IF \E i \in DOMAIN inp.cfg.sources : an.workers.lines[i] = "err"
             THEN [an EXCEPT !.pc = "done", !.result = "err"]
             ELSE LET processed_sources == par_collect(an.workers.returned, an.workers.finished)
                  IN  [an EXCEPT !.pc = "phase2",
                                 !.workers = [workers_start(inp.cfg) EXCEPT
                                                  !.processed_sources = processed_sources,
                                                  !.reordered = Reordered(an.workers)],
                                 !.merger = ProcessedLineMerger_new(processed_sources)]
    /\ UNCHANGED <<inp, mg, pm, st, chan>>

NextWorkers ==
    \/ \E i \in DOMAIN inp.cfg.sources : WorkerReadLines(i)
    \/ \E i \in DOMAIN inp.cfg.sources : \E k \in 1..MaxLines : WorkerLine(i, k)
    \/ \E i \in DOMAIN inp.cfg.sources : WorkerReturn(i)
    \/ WorkersJoin
    \/ AnalyzeLine
    \/ AnalyzeReturn

SpecWorkers == InitWorkers /\ [][NextWorkers]_vars

(***************************************************************************)
(* Properties of the runs with a pool of workers.                          *)
(***************************************************************************)
\* Two AnalysisResults that differ at most in the order of the StateChanges
\* of the JSON fields of one line.
SameUpToJsonOrder(a, b) ==
    /\ a.rule_matches = b.rule_matches
    /\ a.pattern_matches = b.pattern_matches
    /\ Len(a.state_changes) = Len(b.state_changes)
    /\ \A k \in DOMAIN a.state_changes :
           LET c == a.state_changes[k]
               d == b.state_changes[k]
           IN  \/ c = d
               \/ /\ c.rule_id = 0 /\ d.rule_id = 0
                  /\ c.timestamp = d.timestamp /\ c.source_id = d.source_id
                  /\ c \in Range(b.state_changes)
                  /\ d \in Range(a.state_changes)

\* The lines a run has processed, in the order it processed them.
LinesProcessed(run) == [k \in DOMAIN run.ghost |-> run.ghost[k].line]

RulesOfTemplate(cfg, template_id) ==
    UNION {Range(cfg.rulesets[k].rule_ids) :
               k \in {j \in DOMAIN cfg.rulesets : cfg.rulesets[j].template_id = template_id}}

TemplateIdOf(cfg, source_id) ==
    LET i == CHOOSE j \in DOMAIN cfg.sources : cfg.sources[j].id = source_id
    IN  cfg.sources[i].template_id

\* C17: every RuleMatch, and every StateChange a rule caused, of a line of a
\* source is of a rule that some ruleset of the source's template lists.
C17_OnlyRulesOfOwnTemplate ==
    /\ \A k \in DOMAIN an.all_rule_matches :
           LET rm == an.all_rule_matches[k]
           IN  rm.rule_id \in RulesOfTemplate(inp.cfg, TemplateIdOf(inp.cfg, rm.source_id))
    /\ \A k \in DOMAIN an.all_state_changes :
           LET c == an.all_state_changes[k]
           IN  c.rule_id # 0 =>
                   c.rule_id \in RulesOfTemplate(inp.cfg, TemplateIdOf(inp.cfg, c.source_id))

\* A run has returned Ok after processing a line that a rule bound only to
\* the other source's template matches, and after emitting RuleMatches.
C17_Witness ==
    /\ an.pc = "done" /\ an.result = "ok"
    /\ an.all_rule_matches # <<>>
    /\ \E k \in DOMAIN an.ghost :
           LET line == an.ghost[k].line
               own  == RulesOfTemplate(inp.cfg, TemplateIdOf(inp.cfg, line.source_id))
           IN  \E j \in DOMAIN inp.cfg.rules :
                   LET rule == inp.cfg.rules[j]
                   IN  /\ rule.id \notin own
                       /\ \E s \in DOMAIN inp.cfg.sources :
                              rule.id \in RulesOfTemplate(inp.cfg, inp.cfg.sources[s].template_id)
                       /\ evaluate_rule(rule, line, CompiledRule(rule)).matched

\* C18 (as stated): a rule is applied once to a line it matches, however
\* often the rulesets of the source's template list its id: no line has two
\* RuleMatches of one rule.
C18_OneRuleMatchPerLineAndRule ==
    \A j, k \in DOMAIN an.all_rule_matches :
        (/\ j < k
         /\ an.all_rule_matches[j].rule_id = an.all_rule_matches[k].rule_id
         /\ an.all_rule_matches[j].source_id = an.all_rule_matches[k].source_id)
        => an.all_rule_matches[j].log_line # an.all_rule_matches[k].log_line

\* The ruleset-union list of a template: the rule ids of its rulesets, in
\* ruleset order (the first n rulesets).
RECURSIVE RulesetUnionList(_, _, _)
RulesetUnionList(cfg, template_id, n) ==
    IF n = 0 THEN <<>>
    ELSE RulesetUnionList(cfg, template_id, n - 1)
         \o (IF cfg.rulesets[n].template_id = template_id THEN cfg.rulesets[n].rule_ids ELSE <<>>)

RECURSIVE Flatten(_)
Flatten(ss) == IF ss = <<>> THEN <<>> ELSE Head(ss) \o Flatten(Tail(ss))

RECURSIVE IsSubseq(_, _)
IsSubseq(s, t) ==
    IF s = <<>> THEN TRUE
    ELSE IF t = <<>> THEN FALSE
    ELSE IF Head(s) = Head(t) THEN IsSubseq(Tail(s), Tail(t))
    ELSE IsSubseq(s, Tail(t))

\* The value of a key in the state of a source (None: absent).
ValueAt(sm, source_id, key) ==
    IF sm.per_source_state[source_id] = 0 THEN None
    ELSE StateOf(sm, source_id)[key].value

\* The mutations a rule may report, as <<rule id, state key>>, in the
\* declared order of its extraction rules.
MutationsOf(cfg, rule_id) ==
    LET exts == ById(cfg.rules, rule_id).extraction_rules
    IN  [k \in DOMAIN exts |-> <<rule_id, exts[k].state_key>>]

\* What a step of analyze that processes a line adds to the result: the
\* line, the state its pattern evaluation read, and the new StateChanges,
\* RuleMatches and PatternMatches.
LineStep == an.pc = "phase2" /\ Len(an'.ghost) = Len(an.ghost) + 1

LineEffectsInOrder ==
    LET g       == an'.ghost[Len(an'.ghost)]
        line    == g.line
        changes == SubSeq(an'.all_state_changes, Len(an.all_state_changes) + 1,
                          Len(an'.all_state_changes))
        matches == SubSeq(an'.all_rule_matches, Len(an.all_rule_matches) + 1,
                          Len(an'.all_rule_matches))
        pms     == SubSeq(an'.all_pattern_matches, Len(an.all_pattern_matches) + 1,
                          Len(an'.all_pattern_matches))
        list    == RulesetUnionList(inp.cfg, TemplateIdOf(inp.cfg, line.source_id),
                                    Len(inp.cfg.rulesets))
        Matching(id) == /\ HasId(inp.cfg.rules, id)
                        /\ LET rule == ById(inp.cfg.rules, id)
                           IN  evaluate_rule(rule, [line EXCEPT !.cached_json = NoJson],
                                             CompiledRule(rule)).matched
        by_rule == SelectSeq(changes, LAMBDA c : c.rule_id # 0)
    IN  \* JSON StateChanges first
        /\ \A a, b \in DOMAIN changes :
               (a < b /\ changes[b].rule_id = 0) => changes[a].rule_id = 0
        \* then the matching rules, in the order of the ruleset-union list
        /\ [k \in DOMAIN matches |-> matches[k].rule_id] = SelectSeq(list, Matching)
        \* each with its extraction rules in declared order
        /\ IsSubseq([k \in DOMAIN by_rule |-> <<by_rule[k].rule_id, by_rule[k].state_key>>],
                    Flatten([k \in DOMAIN matches |-> MutationsOf(inp.cfg, matches[k].rule_id)]))
        \* then one pattern evaluation, on the state with every effect applied
        /\ \A id \in SourceIds, key \in StateKeys :
               LET ks == {k \in DOMAIN changes :
                              changes[k].source_id = id /\ changes[k].state_key = key}
               IN  /\ ValueAt(g.sm, id, key) =
                          IF ks = {} THEN ValueAt(an.state_manager, id, key)
                          ELSE changes[CHOOSE k \in ks : \A j \in ks : j <= k].new_value
                   /\ ValueAt(an'.state_manager, id, key) = ValueAt(g.sm, id, key)
        /\ \A a, b \in DOMAIN pms : a # b => pms[a].pattern_id # pms[b].pattern_id
        /\ \A a \in DOMAIN pms : pms[a].timestamp = line.timestamp

\* C19: every step that processes a line applies the line's JSON fields
\* first, then its matching rules in the order of the template's
\* ruleset-union list, each with its extraction rules in declared order, and
\* then evaluates the patterns once, on the state that holds all of these
\* effects.
C19_EffectsInOrder == [][LineStep => LineEffectsInOrder]_vars

\* A run has returned Ok with a line whose JSON StateChange is followed by a
\* StateChange of a rule, and a line on which a rule changed state before
\* another rule changed two keys.
C19_Witness ==
    LET c == an.all_state_changes
        SameLine(a, b) == c[a].source_id = c[b].source_id /\ c[a].timestamp = c[b].timestamp
    IN  /\ an.pc = "done" /\ an.result = "ok"
        /\ an.all_pattern_matches # <<>>
        /\ \E k \in DOMAIN c :
               /\ k + 1 \in DOMAIN c /\ SameLine(k, k + 1)
               /\ c[k].rule_id = 0 /\ c[k + 1].rule_id # 0
        /\ \E k \in DOMAIN c :
               /\ k + 2 \in DOMAIN c /\ SameLine(k, k + 1) /\ SameLine(k, k + 2)
               /\ c[k].rule_id # 0
               /\ c[k + 1].rule_id \notin {0, c[k].rule_id}
               /\ c[k + 2].rule_id = c[k + 1].rule_id
               /\ c[k + 2].state_key # c[k + 1].state_key

\* The position of a source among the sources of cfg.
SourceIdxOf(cfg, source_id) == CHOOSE j \in DOMAIN cfg.sources : cfg.sources[j].id = source_id

\* The JSON object a processed line of a JSON-mode source was parsed from.
JsonOf(line) == inp.files[SourceIdxOf(inp.cfg, line.source_id)][line.lineno].json

IsJsonLine(line) ==
    /\ TemplateOf(inp.cfg, SourceIdxOf(inp.cfg, line.source_id)).json_timestamp_field # ""
    /\ JsonOf(line).present

\* A state value of the type that matches a string, number or bool field.
TypeMatches(v, sv) ==
    CASE v.jtype = "String" -> sv.type = "String"
      [] v.jtype \in {"Int", "Float"} -> sv.type \in {"Integer", "Float"}
      [] v.jtype = "Bool" -> sv.type = "Bool"
      [] OTHER -> TRUE

\* A state value that carries the value of a string, number or bool field.
ValueMatches(v, sv) ==
    CASE v.jtype = "String" -> sv.s = v.s
      [] v.jtype = "Int" -> sv.type = "Integer" /\ sv.i = v.i
      [] v.jtype = "Float" -> sv.type = "Float" /\ sv.i = v.i
      [] v.jtype = "Bool" -> sv.i = v.i
      [] OTHER -> TRUE

\* A rule that matched the line has an extraction rule for the key.
RuleWrites(line, key) ==
    \E k \in DOMAIN an.all_rule_matches :
        /\ an.all_rule_matches[k].log_line = line
        /\ \E m \in Range(MutationsOf(inp.cfg, an.all_rule_matches[k].rule_id)) : m[2] = key

\* C20 (as stated): after a JSON-mode line is processed, every string,
\* number and bool field of its object is in the state of the line's source
\* with a value of the matching type.
C20_JsonFieldsInState ==
    \A k \in DOMAIN an.ghost :
        LET line == an.ghost[k].line
        IN  IsJsonLine(line) =>
                \A f \in DOMAIN JsonOf(line).object :
                    TypeMatches(JsonOf(line).object[f],
                                ValueAt(an.ghost[k].sm, line.source_id, f))

\* C20 (amended): after a JSON-mode line is processed, every string, number
\* and bool field of its object for whose key no rule that matched the line
\* has an extraction rule is in the state of the line's source, with the
\* field's value in the matching type.
C20_JsonFieldsInStateUnlessRuleWrites ==
    \A k \in DOMAIN an.ghost :
        LET line == an.ghost[k].line
        IN  IsJsonLine(line) =>
                \A f \in DOMAIN JsonOf(line).object :
                    \/ RuleWrites(line, f)
                    \/ /\ TypeMatches(JsonOf(line).object[f],
                                      ValueAt(an.ghost[k].sm, line.source_id, f))
                       /\ ValueMatches(JsonOf(line).object[f],
                                       ValueAt(an.ghost[k].sm, line.source_id, f))

\* A run has returned Ok after a JSON line with a number field that a
\* matching rule clears and a string field that its rules leave alone, and
\* after a JSON line with a bool and a float field.
C20_Witness ==
    /\ an.pc = "done" /\ an.result = "ok"
    /\ \E k \in DOMAIN an.ghost :
           LET line == an.ghost[k].line
           IN  /\ IsJsonLine(line)
               /\ \E f, h \in DOMAIN JsonOf(line).object :
                      /\ JsonOf(line).object[f].jtype = "Int"
                      /\ RuleWrites(line, f)
                      /\ ValueAt(an.ghost[k].sm, line.source_id, f) = None
                      /\ JsonOf(line).object[h].jtype = "String"
                      /\ ~RuleWrites(line, h)
                      /\ ValueAt(an.ghost[k].sm, line.source_id, h).type = "String"
    /\ \E k \in DOMAIN an.ghost :
           LET line == an.ghost[k].line
           IN  /\ IsJsonLine(line)
               /\ \E f, h \in DOMAIN JsonOf(line).object :
                      /\ JsonOf(line).object[f].jtype = "Bool"
                      /\ ValueAt(an.ghost[k].sm, line.source_id, f).type = "Bool"
                      /\ JsonOf(line).object[h].jtype = "Float"
                      /\ ValueAt(an.ghost[k].sm, line.source_id, h).type = "Float"

(***************************************************************************)
(* evaluate_rule, called on one rule and one line.                         *)
(***************************************************************************)
\* The words the match patterns of the calls look for, and the tokens of
\* their lines.
RuleWords == {"up", "down", "n"}

RuleTokens == {Word("up"), Word("down"), KV("n", <<"5">>)}

\* The rules of the calls: either mode, up to MaxLen match patterns (none
\* too), a Static and a Parsed extraction.
RuleCallRules ==
    {LogRule(1, mode,
             [k \in DOMAIN ws |-> MatchRule(k, ws[k])],
             <<ExtractionRule(1, "Static", "status", NoPattern, String(<<"u", "p">>), "Replace"),
               ExtractionRule(2, "Parsed", "n", [key |-> "n", group |-> "n"], None, "Replace")>>)
        : mode \in {"Any", "All"}, ws \in SeqsUpTo(RuleWords, MaxLen)}

RuleCallLines ==
    {LogLine(1, 1, 1, content, NoJson) : content \in SeqsUpTo(RuleTokens, MaxLen)}

InitRule ==
    /\ \E rule \in RuleCallRules, line \in RuleCallLines : inp = [rule |-> rule, line |-> line]
    /\ an = [pc |-> "call", result |-> [matched |-> FALSE, extracted |-> NoExtractions]]
    /\ mg = Idle
    /\ pm = Idle
    /\ st = Idle
    /\ chan = Idle

\* evaluate_rule(rule, line, compiled), on the rule compiled by compile_rules.
EvaluateRule ==
    /\ an.pc = "call"
    /\ an' = [pc |-> "returned",
              result |-> evaluate_rule(inp.rule, inp.line, CompiledRule(inp.rule))]
    /\ UNCHANGED <<inp, mg, pm, st, chan>>

NextRule == EvaluateRule

SpecRule == InitRule /\ [][NextRule]_vars

\* A match pattern matches the content of the line.
PatternMatchesLine(match_rule, line) ==
    \E t \in DOMAIN line.content : line.content[t].word = match_rule.pattern

\* C23: evaluate_rule reports a match in Any mode exactly when at least one
\* match pattern matches the line's content, and in All mode exactly when
\* every match pattern matches it (every line, when the match list is empty).
C23_MatchModes ==
    an.pc = "returned" =>
        (an.result.matched <=>
            IF inp.rule.match_mode = "Any"
            THEN \E k \in DOMAIN inp.rule.match_rules :
                     PatternMatchesLine(inp.rule.match_rules[k], inp.line)
            ELSE \A k \in DOMAIN inp.rule.match_rules :
                     PatternMatchesLine(inp.rule.match_rules[k], inp.line))

\* A rule in All mode with an empty match list has matched a line that holds
\* tokens, and its Static extraction was returned.
C23_Witness ==
    /\ an.pc = "returned"
    /\ inp.rule.match_mode = "All" /\ inp.rule.match_rules = <<>>
    /\ inp.line.content # <<>>
    /\ an.result.matched
    /\ an.result.extracted["status"] = String(<<"u", "p">>)

(***************************************************************************)
(* StateManager::apply_mutations, called up to MaxCalls times on the state *)
(* of one source, each time with one extraction rule.                      *)
(***************************************************************************)
MaxCalls == 3

\* The extraction rules of the calls: a Parsed/Accumulate and a Clear on "n",
\* a Static/Accumulate on "status".
AccumulateN == ExtractionRule(1, "Parsed", "n", [key |-> "n", group |-> "n"], None, "Accumulate")

ClearN == ExtractionRule(2, "Clear", "n", NoPattern, None, "Replace")

AccumulateStatus(text) == ExtractionRule(3, "Static", "status", NoPattern, String(text), "Accumulate")

\* The calls: the extraction rule and the value evaluate_rule extracted for
\* its key (None: nothing).
MutationCalls ==
    {[rule |-> AccumulateN, val |-> v]
        : v \in {Integer(1), Integer(3), Integer(I64Max), String(<<"a">>),
                  Float(2 ^ FloatMantissa - 1)}}
    \cup {[rule |-> ClearN, val |-> None]}
    \cup {[rule |-> AccumulateStatus(text), val |-> None] : text \in {<<"a">>, <<"b">>}}

InitMutations ==
    /\ \E checks \in BOOLEAN : inp = [overflow_checks |-> checks]
    /\ an = [pc |-> "ready",
             state_manager |-> StateManager_new(<<Source(1, "src1", 1)>>),
             calls |-> <<>>]
    /\ mg = Idle
    /\ pm = Idle
    /\ st = Idle
    /\ chan = Idle

\* sm.apply_mutations(1, &extractions, &rules, timestamp): a panic inside it
\* ends the run.  The call is recorded with the map before and after it and
\* the changes it returned.
ApplyMutations ==
    /\ an.pc = "ready"
    /\ Len(an.calls) < MaxCalls
    /\ \E c \in MutationCalls :
           LET extractions == [NoExtractions EXCEPT ![c.rule.state_key] = c.val]
               sm0    == Arc_make_mut(an.state_manager, 1)
               r      == apply_mutations(an.state_manager, 1, extractions, <<c.rule>>,
                                         Len(an.calls) + 1)
               before == StateOf(sm0, 1)
               after  == StateOf(r.sm, 1)
           IN  IF \E k \in StateKeys : after[k].value = Panic
               THEN an' = [an EXCEPT !.pc = "panicked",
                                     !.calls = Append(@, [rule |-> c.rule, val |-> c.val,
                                                          before |-> before, after |-> before,
                                                          changes |-> <<>>])]
               ELSE an' = [an EXCEPT !.state_manager = r.sm,
                                     !.calls = Append(@, [rule |-> c.rule, val |-> c.val,
                                                          before |-> before, after |-> after,
                                                          changes |-> r.changes])]
    /\ UNCHANGED <<inp, mg, pm, st, chan>>

NextMutations == ApplyMutations

SpecMutations == InitMutations /\ [][NextMutations]_vars

\* The sum of the values of the first n calls.
RECURSIVE SumOfCalls(_, _)
SumOfCalls(calls, n) == IF n = 0 THEN 0 ELSE SumOfCalls(calls, n - 1) + calls[n].val.i

\* C21 (as stated): Parsed/Accumulate calls with positive integers x1..xn on
\* an absent key leave the key at Integer(x1+...+xn), each call returning one
\* change, from None for the first and from the previous sum for the others,
\* to the new sum.
C21_AccumulateSums ==
    (/\ an.calls # <<>>
     /\ \A k \in DOMAIN an.calls :
            /\ an.calls[k].rule = AccumulateN
            /\ an.calls[k].val.type = "Integer" /\ an.calls[k].val.i > 0)
    => /\ an.pc = "ready"
       /\ MapGet(StateOf(an.state_manager, 1), "n") = Integer(SumOfCalls(an.calls, Len(an.calls)))
       /\ \A k \in DOMAIN an.calls :
              an.calls[k].changes =
                  <<Change("n",
                           IF k = 1 THEN None ELSE Integer(SumOfCalls(an.calls, k - 1)),
                           Integer(SumOfCalls(an.calls, k)))>>

\* The value a call accumulates or replaces with.
ValOf(c) == IF c.rule.extraction_type = "Static" THEN c.rule.static_value ELSE c.val

\* a + b: integer addition, comma-join of strings.
Plus(a, b) == IF a.type = "Integer" THEN Integer(a.i + b.i) ELSE String(a.s \o <<",">> \o b.s)

\* Calls k and k+1 accumulate two values of one type, Integer or String, into
\* one key, no sum leaving the range of i64.
AccumulatesTwo(k) ==
    /\ k + 1 \in DOMAIN an.calls
    /\ an.calls[k].rule = an.calls[k + 1].rule
    /\ an.calls[k].rule.mode = "Accumulate"
    /\ ValOf(an.calls[k]).type = ValOf(an.calls[k + 1]).type
    /\ ValOf(an.calls[k]).type \in {"Integer", "String"}
    /\ an.calls[k + 1].changes # <<>>
    /\ ValOf(an.calls[k]).type = "Integer" =>
           ValOf(an.calls[k]).i + ValOf(an.calls[k + 1]).i <= I64Max

\* What the two calls k and k+1 left, and what one call with a + b leaves.
SameAsOneCall(k) ==
    LET c   == an.calls[k]
        key == c.rule.state_key
    IN  an.calls[k + 1].after[key].value
            = accumulate(c.before, key, Plus(ValOf(c), ValOf(an.calls[k + 1])), 0)[key].value

\* C22 (as stated): for an existing or absent value s and a, b both Integer
\* or both String, accumulating a and then b leaves the value that
\* accumulating a + b leaves.
C22_Compositional ==
    \A k \in DOMAIN an.calls : AccumulatesTwo(k) => SameAsOneCall(k)

\* C22: the same when s is absent or is not a Float.
C22_CompositionalOnNonFloat ==
    \A k \in DOMAIN an.calls :
        (AccumulatesTwo(k) /\ an.calls[k].before[an.calls[k].rule.state_key].value.type # "Float")
            => SameAsOneCall(k)

\* Two integers were accumulated into an existing integer, and two strings
\* into an absent key.
C22_Witness ==
    /\ Len(an.calls) = 3
    /\ AccumulatesTwo(2)
    /\ an.calls[2].before["n"].value.type = "Integer"
    /\ an.calls[3].after["n"].value.type = "Integer"

\* C30: a Clear of a present key removes it and returns the one change
\* (key, old value, None), the other keys left alone; a Clear of an absent
\* key leaves the map as it was and returns no change.
C30_Clear ==
    \A k \in DOMAIN an.calls :
        (an.calls[k].rule.extraction_type = "Clear" /\ (k < Len(an.calls) \/ an.pc = "ready")) =>
            LET c   == an.calls[k]
                key == c.rule.state_key
                old == c.before[key].value
            IN  IF old.type # "None"
                THEN /\ c.after[key].value.type = "None"
                     /\ \A h \in StateKeys \ {key} : c.after[h] = c.before[h]
                     /\ c.changes = <<Change(key, old, None)>>
                ELSE /\ c.after = c.before
                     /\ c.changes = <<>>

\* A Clear found its key present, and the next Clear found it absent.
C30_Witness ==
    /\ Len(an.calls) = 3
    /\ an.calls[2].rule.extraction_type = "Clear"
    /\ an.calls[2].before["n"].value.type # "None"
    /\ an.calls[3].rule.extraction_type = "Clear"
    /\ an.calls[3].changes = <<>>

(***************************************************************************)
(* cluster_logs: the merged lines in the time range, counted by the        *)
(* signature tokenize gives their content.                                 *)
(***************************************************************************)
MaxClusterLines == 5

\* str::split_whitespace: the maximal runs of characters other than " ".
RECURSIVE split_whitespace(_, _)
split_whitespace(str, token) ==
    IF str = <<>> THEN (IF token = <<>> THEN <<>> ELSE <<token>>)
    ELSE IF Head(str) = " "
         THEN (IF token = <<>> THEN <<>> ELSE <<token>>) \o split_whitespace(Tail(str), <<>>)
         ELSE split_whitespace(Tail(str), Append(token, Head(str)))

\* join(" ")
RECURSIVE join_space(_)
join_space(tokens) ==
    IF tokens = <<>> THEN <<>>
    ELSE IF Len(tokens) = 1 THEN tokens[1]
    ELSE tokens[1] \o <<" ">> \o join_space(Tail(tokens))

\* ^/[^\s]+/[^\s]+$
UnixPath(token) ==
    /\ Len(token) >= 4
    /\ token[1] = "/"
    /\ \E k \in 3..(Len(token) - 1) : token[k] = "/"

\* ^"[^"]*"$|^'[^']*'$
Quoted(token) ==
    /\ Len(token) >= 2
    /\ \E q \in {"\"", "'"} :
           /\ token[1] = q
           /\ token[Len(token)] = q
           /\ \A k \in 2..(Len(token) - 1) : token[k] # q

\* VARIABLE_PATTERNS on a token shorter than 8 characters: the patterns that
\* need no digit are the path and the quoted string (the UUID and the hex
\* string need 8 characters or a digit), and every other one needs a digit,
\* which the last pattern alone accepts.
IsVariableToken(token) ==
    UnixPath(token) \/ Quoted(token) \/ \E k \in DOMAIN token : IsDigit(token[k])

\* tokenize
tokenize(content) ==
    LET tokens == split_whitespace(content, <<>>)
    IN  join_space([k \in DOMAIN tokens |->
                       IF IsVariableToken(tokens[k]) THEN <<"<", "*", ">">> ELSE tokens[k]])

\* The contents of the lines of the clustered files.
UpFive == <<"u", "p", " ", "5">>

UpPath == <<"u", "p", " ", " ", "/", "a", "/", "b">>

Down == <<"d", "o", "w", "n">>

\* The files: up to MaxClusterLines lines in the first source and one in the
\* second, the first source's timestamps not decreasing.
ClusterFiles ==
    LET first  == UNION {{[k \in 1..n |-> [ts |-> IF k <= j THEN 1 ELSE MaxTs,
                                           content |-> c[k], json |-> NoJson]]
                             : c \in [1..n -> {UpFive, UpPath, Down}], j \in 0..n}
                         : n \in 0..MaxClusterLines}
        second == {<<>>} \cup {<<[ts |-> t, content |-> Down, json |-> NoJson]>> : t \in {0, 1, MaxTs}}
    IN  {[i \in MergeSourceIdx |-> IF i = 0 THEN f0 ELSE f1] : f0 \in first, f1 \in second}

ClusterTimeRanges == {[start |-> 0, end |-> 0], [start |-> MaxTs, end |-> 0],
                      [start |-> 0, end |-> 1]}

\* line.raw of a plain line: the text of the timestamp and the content.
RawOf(line) == [ts |-> line.timestamp, content |-> line.content]

ClusterEntry == [count |-> 0, source_ids |-> {}, sample_lines |-> <<>>]

\* The body of the loop after the filter: one more line for its signature.
cluster_add(clusters, line) ==
    LET signature == tokenize(line.content)
        entry == IF signature \in DOMAIN clusters THEN clusters[signature] ELSE ClusterEntry
        added == [count |-> entry.count + 1,
                  source_ids |-> entry.source_ids \cup {line.source_id},
                  sample_lines |-> IF Len(entry.sample_lines) < 3
                                   THEN Append(entry.sample_lines, RawOf(line))
                                   ELSE entry.sample_lines]
    IN  [s \in DOMAIN clusters \cup {signature} |-> IF s = signature THEN added ELSE clusters[s]]

\* A filter that keeps no cluster of fewer than three lines.
kept_from_three(entry) == entry.count > 2

\* A filter that keeps every cluster.
kept_all(entry) == entry.count > 0

\* .filter(|(_, entry)| entry.count > 1)
kept(entry) == entry.count > 1

LogCluster(template, entry) ==
    [template |-> template, count |-> entry.count, source_ids |-> entry.source_ids,
     sample_lines |-> entry.sample_lines]

\* What sort_by(|a, b| b.count.cmp(&a.count)) leaves.
sorted_by_count(list) ==
    \A j, k \in DOMAIN list : j < k => list[j].count >= list[k].count

InitCluster ==
    /\ inp \in [files : ClusterFiles, time_range : ClusterTimeRanges]
    /\ mg = MergedLogStream_new(inp.files)
    /\ an = [pc |-> IF mg.built THEN "loop" ELSE "done",
             clusters |-> <<>>, total_lines |-> 0, seen |-> <<>>,
             result |-> [ok |-> FALSE, clusters |-> <<>>, total_lines |-> 0]]
    /\ pm = Idle
    /\ st = Idle
    /\ chan = Idle

\* One pass of `for result in stream`: the error of the stream returned by
\* `?`, the line skipped, the loop left, or the line counted.  seen records
\* the counted lines.
ClusterLine ==
    /\ an.pc = "loop"
    /\ \E item \in HeapTop(mg.heap) :
           LET m    == MergedLogStream_next(mg, inp.files, item)
               r    == m.out[Len(m.out)]
               line == r.line
           IN  /\ mg' = m
               /\ an' = IF ~r.ok THEN [an EXCEPT !.pc = "done"]
                        ELSE IF BeforeStart(inp.time_range, line) THEN an
                        ELSE IF AfterEnd(inp.time_range, line) THEN [an EXCEPT !.pc = "collect"]
                        ELSE [an EXCEPT !.total_lines = @ + 1,
                                        !.clusters = cluster_add(@, line),
                                        !.seen = Append(@, line)]
    /\ UNCHANGED <<inp, pm, st, chan>>

\* The stream ends.
ClusterEnd ==
    /\ an.pc = "loop"
    /\ mg.heap = {}
    /\ an' = [an EXCEPT !.pc = "collect"]
    /\ UNCHANGED <<inp, mg, pm, st, chan>>

\* The clusters of the map in the order its iteration takes, filtered,
\* sorted (a stable sort) and returned.
ClusterReturn ==
    /\ an.pc = "collect"
    /\ \E order \in Orders({s \in DOMAIN an.clusters : kept(an.clusters[s])}) :
           LET list == [k \in DOMAIN order |-> LogCluster(order[k], an.clusters[order[k]])]
           IN  /\ sorted_by_count(list)
               /\ an' = [an EXCEPT !.pc = "done",
                                   !.result = [ok |-> TRUE, clusters |-> list,
                                               total_lines |-> an.total_lines]]
    /\ UNCHANGED <<inp, mg, pm, st, chan>>

NextCluster == ClusterLine \/ ClusterEnd \/ ClusterReturn

SpecCluster == InitCluster /\ [][NextCluster]_vars

\* The lines among the counted ones whose content has the signature.
SeenWith(signature) == {k \in DOMAIN an.seen : tokenize(an.seen[k].content) = signature}

SeenSignatures == {tokenize(an.seen[k].content) : k \in DOMAIN an.seen}

RECURSIVE SumOfCounts(_)
SumOfCounts(list) == IF list = <<>> THEN 0 ELSE list[1].count + SumOfCounts(Tail(list))

\* The lines of the files inside the time range.
FileLinesInRange ==
    {<<i, k>> \in MergeSourceIdx \X (1..MaxClusterLines) :
        /\ k \in DOMAIN inp.files[i]
        /\ inp.time_range.start # 0 => inp.files[i][k].ts >= inp.time_range.start
        /\ inp.time_range.end # 0 => inp.files[i][k].ts <= inp.time_range.end}

\* C24: in a returned result the counts of the clusters and the number of
\* signatures seen exactly once add up to total_lines, and total_lines is the
\* number of merged lines inside the time range.
C24_CountsAddUp ==
    (an.pc = "done" /\ an.result.ok) =>
        /\ SumOfCounts(an.result.clusters)
             + Cardinality({s \in SeenSignatures : Cardinality(SeenWith(s)) = 1})
               = an.result.total_lines
        /\ an.result.total_lines = Len(an.seen)
        /\ an.result.total_lines = Cardinality(FileLinesInRange)

\* A result with a cluster, a signature seen once and a line out of range.
C24_Witness ==
    /\ an.pc = "done" /\ an.result.ok
    /\ an.result.clusters # <<>>
    /\ \E s \in SeenSignatures : Cardinality(SeenWith(s)) = 1
    /\ an.result.total_lines < Len(inp.files[0]) + Len(inp.files[1])

\* C25: every returned cluster has two lines or more and three sample lines
\* or fewer, and the counts of the returned clusters do not increase.
C25_NoSingletonSortedCapped ==
    (an.pc = "done" /\ an.result.ok) =>
        /\ \A k \in DOMAIN an.result.clusters :
               /\ an.result.clusters[k].count >= 2
               /\ Len(an.result.clusters[k].sample_lines) <= 3
        /\ \A j, k \in DOMAIN an.result.clusters :
               j < k => an.result.clusters[j].count >= an.result.clusters[k].count

\* A result with a cluster of more than three lines, a smaller cluster after
\* it and a signature that was dropped.
C25_Witness ==
    /\ an.pc = "done" /\ an.result.ok
    /\ Len(an.result.clusters) = 2
    /\ an.result.clusters[1].count > 3
    /\ an.result.clusters[2].count < an.result.clusters[1].count

(***************************************************************************)
(* LogLineIterator::next with a continuation_regex, called until the file  *)
(* ends.  The text of a file that reads as text is the sequence of its     *)
(* physical lines; a merged text, whose lines "\n" joins, is the sequence  *)
(* of the lines it was made of.                                            *)
(***************************************************************************)
MaxPhysLines == 4

\* Regex::is_match on the content of one line.
Regex_is_match(pattern, content) == \E k \in DOMAIN content : content[k].word = pattern

\* The physical lines: with a timestamp that parses or none (0), and with
\* the word the continuation regex looks for or another.
ContinuationPhysLines == [ts : {0, 1}, content : {<<Word("up")>>, <<Word("at")>>}]

NoPending == [present |-> FALSE, line |-> <<>>]

\* The continuation loop that forgets the line that ended it.
RECURSIVE read_continuation_forgets(_, _, _, _)
read_continuation_forgets(file, pos, cont_re, merged) ==
    IF pos >= Len(file) THEN [merged |-> merged, pos |-> pos, pending_line |-> NoPending]
    ELSE LET line == file[pos + 1]
         IN  IF Regex_is_match(cont_re, line.content)
             THEN read_continuation_forgets(file, pos + 1, cont_re, Append(merged, line))
             ELSE [merged |-> merged, pos |-> pos + 1, pending_line |-> NoPending]

\* The continuation loop: read lines until the end of the file or a line the
\* regex does not match, which is kept as pending_line.
RECURSIVE read_continuation(_, _, _, _)
read_continuation(file, pos, cont_re, merged) ==
    IF pos >= Len(file) THEN [merged |-> merged, pos |-> pos, pending_line |-> NoPending]
    ELSE LET line == file[pos + 1]
         IN  IF Regex_is_match(cont_re, line.content)
             THEN read_continuation(file, pos + 1, cont_re, Append(merged, line))
             ELSE [merged |-> merged, pos |-> pos + 1,
                   pending_line |-> [present |-> TRUE, line |-> line]]

\* LogLineIterator::next of a plain-text source without content_regex: the
\* iterator after the call and the item returned (none at the end of the
\* file).  pos is the number of lines read from the reader.
LogLineIterator_next(self, file) ==
    IF ~self.pending_line.present /\ self.pos >= Len(file)
    THEN [self |-> self, some |-> FALSE, item |-> <<>>]
    ELSE LET head_line == IF self.pending_line.present THEN self.pending_line.line
                          ELSE file[self.pos + 1]
             pos == IF self.pending_line.present THEN self.pos ELSE self.pos + 1
             r   == IF self.continuation_regex # ""
                    THEN read_continuation(file, pos, self.continuation_regex, <<head_line>>)
                    ELSE [merged |-> <<head_line>>, pos |-> pos, pending_line |-> NoPending]
             first_line == r.merged[1]
         IN  [self |-> [self EXCEPT !.pos = r.pos, !.pending_line = r.pending_line],
              some |-> TRUE,
              item |-> [ok |-> first_line.ts # 0, timestamp |-> first_line.ts,
                        raw |-> r.merged, content |-> r.merged]]

InitLines ==
    /\ inp \in [file : SeqsUpTo(ContinuationPhysLines, MaxPhysLines),
                continuation_regex : {"", "at"}]
    /\ an = [pc |-> "iterating",
             self |-> [pos |-> 0, pending_line |-> NoPending,
                       continuation_regex |-> inp.continuation_regex],
             items |-> <<>>]
    /\ mg = Idle
    /\ pm = Idle
    /\ st = Idle
    /\ chan = Idle

\* One call of next: an item, Ok or Err, or None.
IteratorNext ==
    /\ an.pc = "iterating"
    /\ LET r == LogLineIterator_next(an.self, inp.file)
       IN  an' = IF r.some
                 THEN [an EXCEPT !.self = r.self, !.items = Append(@, r.item)]
                 ELSE [an EXCEPT !.pc = "done"]
    /\ UNCHANGED <<inp, mg, pm, st, chan>>

NextLines == IteratorNext

SpecLines == InitLines /\ [][NextLines]_vars

\* The physical lines of the entries so far, in the order of the entries.
RECURSIVE LinesOfEntries(_)
LinesOfEntries(items) ==
    IF items = <<>> THEN <<>> ELSE items[1].raw \o LinesOfEntries(Tail(items))

\* The number of physical lines of the first n entries.
RECURSIVE LinesBefore(_, _)
LinesBefore(items, n) == IF n = 0 THEN 0 ELSE LinesBefore(items, n - 1) + Len(items[n].raw)

\* C26: with a continuation_regex every entry is a head line and the lines
\* after it that match, as far as the first line that does not match, which
\* is the head of the next entry; the lines of the entries, in order, are the
\* lines of the file read so far, and all its lines once the iterator ends.
C26_EntriesPartitionTheFile ==
    inp.continuation_regex # "" =>
        /\ \A n \in DOMAIN an.items :
               LET from == LinesBefore(an.items, n - 1)
                   raw  == an.items[n].raw
               IN  /\ raw # <<>>
                   /\ raw = SubSeq(inp.file, from + 1, from + Len(raw))
                   /\ \A k \in 2..Len(raw) : Regex_is_match(inp.continuation_regex, raw[k].content)
                   /\ from + Len(raw) < Len(inp.file) =>
                          ~Regex_is_match(inp.continuation_regex,
                                          inp.file[from + Len(raw) + 1].content)
        /\ an.pc = "done" => LinesOfEntries(an.items) = inp.file

\* The iterator ended having returned an entry of three lines and, after it,
\* an entry whose head is the line that ended the first.
C26_Witness ==
    /\ inp.continuation_regex # ""
    /\ an.pc = "done"
    /\ Len(an.items) = 2
    /\ Len(an.items[1].raw) = 3
    /\ an.items[2].ok

(***************************************************************************)
(* handle_analysis_ws (routes/analysis.rs): the engine on a blocking       *)
(* thread sends into a std channel, a bridge thread forwards from it into  *)
(* a tokio channel, and the async loop sends what it receives to the       *)
(* socket.  A channel is the number of events queued in it and the state   *)
(* of its two ends; the engine is the events it sends.                     *)
(***************************************************************************)
\* The capacity the model gives the tokio channel (256 in the source).
TokioCapacity == 2

\* The most events a run sends before Complete.
MaxEvents == 5

InitWs ==
    /\ inp \in [events : 0..MaxEvents, phase1_fails : BOOLEAN]
    /\ an = [pc |-> "phase1", sent |-> 0, outcome |-> "running"]
    /\ chan = [std |-> 0, std_tx |-> TRUE, std_rx |-> TRUE,
               tok |-> 0, tok_tx |-> TRUE, tok_rx |-> TRUE]
    /\ st = [bridge |-> "recv", bridge_exit |-> "running",
             loop |-> "recv", loop_exit |-> "running",
             client |-> "connected", delivered |-> 0]
    /\ mg = Idle
    /\ pm = Idle

\* analyze_streaming up to its first send: an error of Phase 1 returns Err
\* and drops tx with nothing sent.
EnginePhase1 ==
    /\ an.pc = "phase1"
    /\ IF inp.phase1_fails
       THEN /\ an' = [an EXCEPT !.pc = "returned", !.outcome = "err"]
            /\ chan' = [chan EXCEPT !.std_tx = FALSE]
       ELSE /\ an' = [an EXCEPT !.pc = "sending"]
            /\ chan' = chan
    /\ UNCHANGED <<inp, mg, pm, st>>

\* tx.send(event) on the unbounded std channel: Ok while the receiver lives,
\* never blocked; Err once it is dropped, and the engine returns.
EngineSend ==
    /\ an.pc = "sending"
    /\ an.sent < inp.events
    /\ IF chan.std_rx
       THEN /\ an' = [an EXCEPT !.sent = @ + 1]
            /\ chan' = [chan EXCEPT !.std = @ + 1]
       ELSE /\ an' = [an EXCEPT !.pc = "returned", !.outcome = "send_failed"]
            /\ chan' = [chan EXCEPT !.std_tx = FALSE]
    /\ UNCHANGED <<inp, mg, pm, st>>

\* let _ = tx.send(Complete); Ok(())
EngineComplete ==
    /\ an.pc = "sending"
    /\ an.sent = inp.events
    /\ an' = [an EXCEPT !.pc = "returned", !.outcome = "ok"]
    /\ chan' = [chan EXCEPT !.std = IF chan.std_rx THEN @ + 1 ELSE @, !.std_tx = FALSE]
    /\ UNCHANGED <<inp, mg, pm, st>>

\* The bridge leaves its loop: std_rx and tok_tx are dropped.
BridgeExit(why) ==
    /\ st' = [st EXCEPT !.bridge = "exited", !.bridge_exit = why]
    /\ chan' = [chan EXCEPT !.std = 0, !.std_rx = FALSE, !.tok_tx = FALSE]

\* `for event in std_rx`: the next event, or the end of the loop when the
\* channel is empty and the engine has dropped tx.
BridgeRecv ==
    /\ st.bridge = "recv"
    /\ \/ /\ chan.std > 0
          /\ chan' = [chan EXCEPT !.std = @ - 1]
          /\ st' = [st EXCEPT !.bridge = "forward"]
       \/ /\ chan.std = 0
          /\ ~chan.std_tx
          /\ BridgeExit("engine_done")
    /\ UNCHANGED <<inp, mg, pm, an>>

\* A blocking_send that waits for room and does not see the receiver close.
BridgeForward_waits_for_capacity ==
    /\ st.bridge = "forward"
    /\ chan.tok < TokioCapacity
    /\ chan' = [chan EXCEPT !.tok = @ + 1]
    /\ st' = [st EXCEPT !.bridge = "recv"]
    /\ UNCHANGED <<inp, mg, pm, an>>

\* tok_tx.blocking_send(event): waits while the channel is full, Err once
\* the receiver is dropped, and then `break`.
BridgeForward ==
    /\ st.bridge = "forward"
    /\ \/ /\ chan.tok_rx
          /\ chan.tok < TokioCapacity
          /\ chan' = [chan EXCEPT !.tok = @ + 1]
          /\ st' = [st EXCEPT !.bridge = "recv"]
       \/ /\ ~chan.tok_rx
          /\ BridgeExit("forward_failed")
    /\ UNCHANGED <<inp, mg, pm, an>>

\* The async loop returns: tok_rx and the socket are dropped.
LoopExit(why) ==
    /\ st' = [st EXCEPT !.loop = "returned", !.loop_exit = why]
    /\ chan' = [chan EXCEPT !.tok = 0, !.tok_rx = FALSE]

\* tok_rx.recv().await: the next event, or None when the channel is empty
\* and the bridge has dropped tok_tx.
LoopRecv ==
    /\ st.loop = "recv"
    /\ \/ /\ chan.tok > 0
          /\ chan' = [chan EXCEPT !.tok = @ - 1]
          /\ st' = [st EXCEPT !.loop = "send"]
       \/ /\ chan.tok = 0
          /\ ~chan.tok_tx
          /\ LoopExit("channel_closed")
    /\ UNCHANGED <<inp, mg, pm, an>>

\* socket.send(..).await: the event reaches a connected client; the send to
\* a client that is gone is an Err, and then `break`.
LoopSend ==
    /\ st.loop = "send"
    /\ IF st.client = "connected"
       THEN /\ st' = [st EXCEPT !.loop = "recv", !.delivered = @ + 1]
            /\ chan' = chan
       ELSE LoopExit("send_failed")
    /\ UNCHANGED <<inp, mg, pm, an>>

\* The client disconnects.
ClientDisconnect ==
    /\ st.client = "connected"
    /\ st' = [st EXCEPT !.client = "gone"]
    /\ UNCHANGED <<inp, mg, pm, an, chan>>

EngineStep == EnginePhase1 \/ EngineSend \/ EngineComplete

BridgeStep == BridgeRecv \/ BridgeForward

LoopStep == LoopRecv \/ LoopSend

NextWs == EngineStep \/ BridgeStep \/ LoopStep \/ ClientDisconnect

SpecWs == InitWs /\ [][NextWs]_vars

\* The two blocking threads and the task of the async loop are scheduled
\* whenever they can run; nothing makes a client disconnect.
SpecWsFair ==
    InitWs /\ [][NextWs]_vars
    /\ WF_vars(EngineStep) /\ WF_vars(BridgeStep) /\ WF_vars(LoopStep)

\* The events the engine has sent that the async loop has not taken.
NotYetTaken == chan.std + (IF st.bridge = "forward" THEN 1 ELSE 0) + chan.tok

\* C27 (as stated): the events emitted and not yet taken by the consumer
\* never exceed a fixed capacity, that of the bounded channel and the one
\* event the bridge holds.
C27_BoundedSink == NotYetTaken <= TokioCapacity + 1

\* C28: once the client is gone no event reaches it, a send of the loop
\* stops the loop, a forward of the bridge after that makes it exit, a send
\* of the engine after that makes it return, and the loop, the bridge and
\* the engine all end.
C28_DisconnectEndsAll ==
    /\ [][st.client = "gone" => st'.delivered = st.delivered]_vars
    /\ [][(st.client = "gone" /\ st.loop = "send" /\ st'.loop # st.loop)
              => (st'.loop = "returned" /\ ~chan'.tok_rx)]_vars
    /\ [][(~chan.tok_rx /\ st.bridge = "forward" /\ st'.bridge # st.bridge)
              => (st'.bridge = "exited" /\ ~chan'.std_rx)]_vars
    /\ [][(~chan.std_rx /\ an.pc = "sending" /\ an.sent < inp.events /\ an' # an)
              => an'.pc = "returned"]_vars
    /\ (st.client = "gone")
           ~> (st.loop = "returned" /\ st.bridge = "exited" /\ an.pc = "returned")

\* The client went, the loop's send failed, the bridge's forward failed and
\* the engine's send failed, with events of the run still unsent.
C28_Witness ==
    /\ st.client = "gone"
    /\ st.loop_exit = "send_failed"
    /\ st.bridge_exit = "forward_failed"
    /\ an.outcome = "send_failed"
    /\ an.sent < inp.events

(***************************************************************************)
(* The Phase 2 loop of analyze_streaming over long merged streams: lines   *)
(* before the start of the time range, lines inside it, and a line after   *)
(* its end.  One line of the stream has a rule match.                      *)
(***************************************************************************)
MaxCountedLines == 1001

\* The numbers of lines inside the time range.
CountedChoices ==
    {0, 1, ProgressEvery - 1, ProgressEvery, ProgressEvery + 1, 2 * ProgressEvery,
     MaxCountedLines}

\* A check that finds a Progress event due on every line.
progress_due_on_every_line(lines_processed) == TRUE

\* lines_processed.is_multiple_of(500)
progress_due(lines_processed) == lines_processed % ProgressEvery = 0

InitProgress ==
    /\ inp \in [counted : CountedChoices, skipped : {0, 2}, late : BOOLEAN,
                match_line : {0, ProgressEvery, 2 * ProgressEvery}]
    /\ st = [pc |-> "loop", result |-> "none", taken |-> 0, lines_processed |-> 0,
             events_left |-> 0, attempts |-> 0, send_failed |-> FALSE]
    /\ chan = channel
    /\ an = Idle
    /\ mg = Idle
    /\ pm = Idle

\* `for processed in merger` and the time-range filter: the stream ends, the
\* line is skipped, the loop is left, or the line is counted.
ProgressNextLine ==
    /\ st.pc = "loop"
    /\ st' = IF st.taken = inp.skipped + inp.counted + (IF inp.late THEN 1 ELSE 0)
             THEN [st EXCEPT !.pc = "complete"]
             ELSE IF st.taken < inp.skipped
             THEN [st EXCEPT !.taken = @ + 1]
             ELSE IF st.taken >= inp.skipped + inp.counted
             THEN [st EXCEPT !.taken = @ + 1, !.pc = "complete"]
             ELSE [st EXCEPT !.taken = @ + 1, !.pc = "events",
                             !.lines_processed = @ + 1,
                             !.events_left = IF st.lines_processed + 1 = inp.match_line
                                             THEN 1 ELSE 0]
    /\ UNCHANGED <<inp, mg, pm, an, chan>>

\* The send of an event of the line.
ProgressLineEvent ==
    /\ st.pc = "events"
    /\ st.events_left > 0
    /\ LET o == send_or_return([st EXCEPT !.events_left = @ - 1], chan,
                               Event("RuleMatch", [lines_processed |-> st.lines_processed]),
                               "events")
       IN  st' = o.st /\ chan' = o.chan
    /\ UNCHANGED <<inp, mg, pm, an>>

\* The end of the loop body.
ProgressCheck ==
    /\ st.pc = "events"
    /\ st.events_left = 0
    /\ IF progress_due(st.lines_processed)
       THEN LET o == send_or_return(st, chan, Progress(st.lines_processed), "loop")
            IN  st' = o.st /\ chan' = o.chan
       ELSE st' = [st EXCEPT !.pc = "loop"] /\ chan' = chan
    /\ UNCHANGED <<inp, mg, pm, an>>

\* let _ = tx.send(Complete {..}); Ok(())
ProgressComplete ==
    /\ st.pc = "complete"
    /\ LET o == send_ignoring_failure(st, chan, Complete(st.lines_processed, 0, 0, 0), "done")
       IN  st' = [o.st EXCEPT !.result = "ok"] /\ chan' = o.chan
    /\ UNCHANGED <<inp, mg, pm, an>>

\* The receiver is dropped while the loop runs.
ProgressDropReceiver ==
    /\ st.pc # "done"
    /\ chan.rx_alive
    /\ chan' = [chan EXCEPT !.rx_alive = FALSE]
    /\ UNCHANGED <<inp, mg, pm, an, st>>

NextProgress ==
    \/ ProgressNextLine \/ ProgressLineEvent \/ ProgressCheck \/ ProgressComplete
    \/ ProgressDropReceiver

SpecProgress == InitProgress /\ [][NextProgress]_vars

\* The Progress events sent, in order.
ProgressSent == SelectSeq(chan.sent, LAMBDA e : e.type = "Progress")

\* The lines of the stream taken so far that lie inside the time range.
CountedSoFar ==
    IF st.taken <= inp.skipped THEN 0
    ELSE IF st.taken - inp.skipped <= inp.counted THEN st.taken - inp.skipped
    ELSE inp.counted

\* C29: lines_processed counts the lines inside the time range only; the
\* Progress events sent are those of the multiples of 500 it has passed, each
\* carrying its multiple and sent after the events of its line, all of them
\* unless a send has failed; a run that sends Complete after n counted lines
\* has sent n \div 500 of them.
C29_ProgressEvery500 ==
    LET passed == IF st.pc = "events" THEN st.lines_processed - 1 ELSE st.lines_processed
        due == [i \in 1..(passed \div 500) |-> Progress(500 * i)]
    IN  /\ st.lines_processed = CountedSoFar
        /\ IF st.send_failed
           THEN Len(ProgressSent) <= Len(due) /\ ProgressSent = SubSeq(due, 1, Len(ProgressSent))
           ELSE ProgressSent = due
        /\ \A j, k \in DOMAIN chan.sent :
               (/\ chan.sent[j].type = "Progress"
                /\ chan.sent[k].type = "RuleMatch"
                /\ chan.sent[k].payload.lines_processed = chan.sent[j].payload.lines_processed)
                   => k < j
        /\ (chan.sent # <<>> /\ chan.sent[Len(chan.sent)].type = "Complete") =>
               Len(ProgressSent) = inp.counted \div 500

\* A run over skipped lines and more than a thousand counted ones sent the
\* rule match of its 500th line, two Progress events and Complete.
C29_Witness ==
    /\ st.pc = "done"
    /\ inp.skipped > 0
    /\ inp.counted > 2 * ProgressEvery
    /\ Len(chan.sent) = 4
    /\ chan.sent[1].type = "RuleMatch"
    /\ chan.sent[4].type = "Complete"

(***************************************************************************)
(* Further properties of the merger runs.                                  *)
(***************************************************************************)
\* The entry iterator i yielded as its k-th item.
YieldedLine(i, k) == LogLineIterator_item(i + 1, PlainTemplate, inp.files[i], k).line

\* C31 (as stated): every entry an iterator yielded successfully to a built
\* stream is in the heap or has been returned; none is lost, also when the
\* refill that followed its pop failed.
C31_PoppedEntryReturned ==
    mg.built =>
        \A i \in DOMAIN inp.files :
            \A k \in 1..mg.pos[i] :
                inp.files[i][k].ts # 0 =>
                    \/ \E item \in mg.heap : item.line = YieldedLine(i, k)
                    \/ \E n \in DOMAIN MergedLines : MergedLines[n] = YieldedLine(i, k)

\* The entries of source i among lines, in order.
OfSource(lines, i) == SelectSeq(lines, LAMBDA l : l.source_id = i + 1)

\* The entries source i yields, in order.
SourceLines(i) == [k \in DOMAIN inp.files[i] |-> YieldedLine(i, k)]

MaxPatternSteps == 6

PatternSourceChoices ==
    {<<Source(1, "server", 1), Source(2, "client", 1)>>,
     <<Source(1, "server", 1), Source(2, "server", 1)>>}

EvalPatterns ==
    <<Pattern(1, <<PatternPredicate("server", "status", "Eq", Literal(String(<<"a">>))),
                   PatternPredicate("server", "n", "Gt", Literal(Integer(3)))>>),
      Pattern(2, <<PatternPredicate("server", "status", "Exists", Literal(None)),
                   PatternPredicate("client", "status", "Eq", StateRef("server", "status")),
                   PatternPredicate("server", "n", "Exists", Literal(None))>>),
      Pattern(3, <<>>)>>

\* The state changes: an extraction rule and the value extracted for its key.
StateChangeChoices ==
    {[rule |-> ExtractionRule(1, "Static", "status", NoPattern, String(text), "Replace"),
      val |-> None] : text \in {<<"a">>, <<"b">>}}
    \cup {[rule |-> ExtractionRule(2, "Parsed", "n", [key |-> "n", group |-> "n"], None, "Replace"),
           val |-> Integer(5)]}
    \cup {[rule |-> ExtractionRule(3, "Clear", k, NoPattern, None, "Replace"), val |-> None]
             : k \in {"status", "n"}}

\* What is kept of the last call: its progress before, its matches and the
\* state manager it left.
NoCall == [called |-> FALSE, progress_before |-> <<>>, matches |-> <<>>, sm |-> <<>>]

InitPatterns ==
    /\ inp \in [sources : PatternSourceChoices, hash_order : Orders(SourceIds)]
    /\ an = [pc |-> "ready", steps |-> 0,
             state_manager |-> StateManager_new(inp.sources),
             pattern_eval |-> PatternEvaluator_new(EvalPatterns),
             since_zero |-> [i \in DOMAIN EvalPatterns |-> 0],
             last |-> NoCall]
    /\ mg = Idle
    /\ pm = Idle
    /\ st = Idle
    /\ chan = Idle

\* A state change between two calls.
PatternStateChange ==
    /\ an.steps < MaxPatternSteps
    /\ \E source_id \in SourceIds, c \in StateChangeChoices :
           LET r == apply_mutations(an.state_manager, source_id,
                                    [NoExtractions EXCEPT ![c.rule.state_key] = c.val],
                                    <<c.rule>>, 1)
           IN  an' = [an EXCEPT !.steps = @ + 1, !.state_manager = r.sm, !.last = NoCall]
    /\ UNCHANGED <<inp, mg, pm, st, chan>>

\* pattern_eval.evaluate_patterns(patterns, &state_manager).  since_zero
\* counts the calls since the progress of a pattern was last 0 at a call.
PatternEvaluate ==
    /\ an.steps < MaxPatternSteps
    /\ LET e == evaluate_patterns(an.pattern_eval, EvalPatterns, an.state_manager)
       IN  an' = [an EXCEPT !.steps = @ + 1,
                            !.state_manager = e.sm,
                            !.pattern_eval = [progress |-> e.progress],
                            !.since_zero = [i \in DOMAIN EvalPatterns |->
                                               IF an.pattern_eval.progress[i] = 0
                                               THEN 1 ELSE an.since_zero[i] + 1],
                            !.last = [called |-> TRUE,
                                      progress_before |-> an.pattern_eval.progress,
                                      matches |-> e.matches, sm |-> e.sm]]
    /\ UNCHANGED <<inp, mg, pm, st, chan>>

NextPatterns == PatternStateChange \/ PatternEvaluate

SpecPatterns == InitPatterns /\ [][NextPatterns]_vars

\* The value a snapshot holds for a key of the source of a name.
SnapshotHolds(m, sm, source_name, key) ==
    IF source_name \notin DOMAIN m.state_snapshot THEN None
    ELSE sm.arcs[m.state_snapshot[source_name]].map[key].value

\* A predicate on the state a snapshot holds.
HoldsOnSnapshot(pred, m, sm) ==
    LET a == SnapshotHolds(m, sm, pred.source_name, pred.state_key)
        b == IF pred.operand.kind = "Literal" THEN pred.operand.value
             ELSE SnapshotHolds(m, sm, pred.operand.source_name, pred.operand.state_key)
    IN  CASE pred.operator = "Exists" -> a.type # "None"
          [] pred.operator = "Eq" -> a.type # "None" /\ a = b
          [] pred.operator = "Gt" ->
                 /\ a.type \in {"Integer", "Float"}
                 /\ b.type = "Integer"
                 /\ (IF a.type = "Integer" THEN AsF64(a.i) ELSE a.i) > AsF64(b.i)

AllHoldOnSnapshot ==
    \A k \in DOMAIN an.last.matches :
        LET m == an.last.matches[k]
            p == ById(EvalPatterns, m.pattern_id)
        IN  \A j \in DOMAIN p.predicates : HoldsOnSnapshot(p.predicates[j], m, an.last.sm)

DistinctNames ==
    \A j, k \in DOMAIN inp.sources : j # k => inp.sources[j].name # inp.sources[k].name

\* C33 (as stated): every predicate of the pattern of a PatternMatch holds on
\* the state its snapshot holds.
C33_SnapshotSatisfiesPattern == an.last.called => AllHoldOnSnapshot

\* C33: the same for sources with distinct names.
C33_SnapshotSatisfiesPatternDistinctNames ==
    (an.last.called /\ DistinctNames) => AllHoldOnSnapshot

\* A call over sources with distinct names gave a match of the pattern with
\* three predicates, one of them over two sources.
C33_Witness ==
    /\ an.last.called
    /\ DistinctNames
    /\ \E k \in DOMAIN an.last.matches : an.last.matches[k].pattern_id = 2

\* C34: the progress of a pattern with predicates is an index of its list.
C34_ProgressInBounds ==
    \A i \in DOMAIN EvalPatterns :
        EvalPatterns[i].predicates # <<>> =>
            /\ an.pattern_eval.progress[i] >= 0
            /\ an.pattern_eval.progress[i] < Len(EvalPatterns[i].predicates)

\* A call has completed a pattern and left its progress at 0, after state
\* changes and calls that had advanced and reset it.
C34_Witness ==
    /\ an.last.called
    /\ an.last.matches # <<>>
    /\ an.last.progress_before[2] = 2
    /\ an.pattern_eval.progress[2] = 0

CallMatchesOf(i) ==
    {k \in DOMAIN an.last.matches : an.last.matches[k].pattern_id = EvalPatterns[i].id}

\* C35: a call moves the progress of a pattern forward by one at most and
\* gives at most one match of it, and a match of a pattern with k predicates
\* comes at the k-th call, or a later one, since its progress was last 0.
C35_OnePredicatePerCall ==
    an.last.called =>
        \A i \in DOMAIN EvalPatterns :
            /\ an.pattern_eval.progress[i] <= an.last.progress_before[i] + 1
            /\ Cardinality(CallMatchesOf(i)) <= 1
            /\ CallMatchesOf(i) # {} =>
                   /\ an.since_zero[i] >= Len(EvalPatterns[i].predicates)
                   /\ an.last.progress_before[i] = Len(EvalPatterns[i].predicates) - 1

\* All three predicates of a pattern held at a call that started at progress
\* 0 and gave no match of it.
C35_Witness ==
    /\ an.last.called
    /\ an.last.progress_before[2] = 0
    /\ an.pattern_eval.progress[2] = 1
    /\ \A j \in DOMAIN EvalPatterns[2].predicates :
           evaluate_predicate(EvalPatterns[2].predicates[j], an.state_manager)

(***************************************************************************)
(* Further properties of the analysis runs.                                *)
(***************************************************************************)
\* The step takes from the merger of the run a line before the start of the
\* time range.
TakesLineBeforeStart(run, next_run) ==
    \E item \in run.merger.heap \ next_run.merger.heap :
        /\ inp.time_range.start # 0
        /\ item.processed.line.timestamp < inp.time_range.start

\* C36: a line before the start of the time range changes nothing of either
\* driver but the merger (no state, no progress, no event, no count), and the
\* first line that counts meets the state and the progress of a new run.
C36_SkippedLineHasNoEffect ==
    [][/\ (st.pc = "loop" /\ TakesLineBeforeStart(st, st')) =>
              /\ st' = [st EXCEPT !.merger = st'.merger]
              /\ chan' = chan
       /\ (an.pc = "phase2" /\ TakesLineBeforeStart(an, an')) =>
              an' = [an EXCEPT !.merger = an'.merger]
       /\ (st.lines_processed = 0 /\ st'.lines_processed = 1) =>
              /\ st.state_manager = StateManager_new(inp.cfg.sources)
              /\ st.pattern_eval = PatternEvaluator_new(inp.cfg.patterns)
              /\ chan.sent = <<>>]_vars

\* A streaming run has skipped a line before the start and has then sent the
\* events of a line inside the range.
C36_Witness ==
    /\ inp.time_range.start # 0
    /\ AllParse(inp.files)
    /\ \E i \in DOMAIN inp.files : \E k \in DOMAIN inp.files[i] :
           inp.files[i][k].ts < inp.time_range.start
    /\ st.lines_processed >= 1
    /\ Len(chan.sent) >= 2

(***************************************************************************)
(* The state of the sources under the writes of a run: the rule mutations  *)
(* and the JSON fields of the lines of two sources with one template, in   *)
(* the order of their timestamps.                                          *)
(***************************************************************************)
MaxStateSteps == 3

\* An extraction rule and what the regex of a Parsed one captured.
StateRuleChoices ==
    {[rule |-> ExtractionRule(1, "Static", "status", NoPattern, String(text), "Replace"),
      val |-> None] : text \in {<<"a">>, <<"b">>}}
    \cup {[rule |-> ExtractionRule(2, "Parsed", "n", [key |-> "n", group |-> "n"], None, mode),
           val |-> v] : mode \in {"Replace", "Accumulate"},
                        v \in {Integer(1), Float(AsF64(1))}}
    \cup {[rule |-> ExtractionRule(3, "Clear", k, NoPattern, None, "Replace"), val |-> None]
             : k \in {"status", "n"}}

\* The fields the text of a JSON line may give to the state of its source.
JsonFieldChoices ==
    {[NoFields EXCEPT !.present = TRUE, !.fields["n"] = v]
        : v \in {Integer(1), Float(AsF64(1))}}
    \cup {[NoFields EXCEPT !.present = TRUE, !.fields["port"] = Integer(1),
                           !.fields["ok"] = Bool(TRUE)]}

\* The timestamps of the lines to come: the merged stream is chronological.
LaterTimes == {t \in 1..2 : t >= an.now}

\* last: the source of the last line and the change records of its write.
InitState ==
    /\ inp \in [sources : PatternSourceChoices]
    /\ an = [pc |-> "ready", steps |-> 0, now |-> 1,
             state_manager |-> StateManager_new(inp.sources),
             last |-> [source_id |-> 0, changes |-> <<>>]]
    /\ mg = Idle
    /\ pm = Idle
    /\ st = Idle
    /\ chan = Idle

\* state_manager.apply_mutations for a rule match of a line.
StateApplyMutations ==
    /\ an.steps < MaxStateSteps
    /\ \E source_id \in SourceIds, c \in StateRuleChoices, ts \in LaterTimes :
           LET r == apply_mutations(an.state_manager, source_id,
                                    [NoExtractions EXCEPT ![c.rule.state_key] = c.val],
                                    <<c.rule>>, ts)
           IN  an' = [an EXCEPT !.steps = @ + 1, !.now = ts, !.state_manager = r.sm,
                                !.last = [source_id |-> source_id, changes |-> r.changes]]
    /\ UNCHANGED <<inp, mg, pm, st, chan>>

\* "Apply pre-computed JSON fields as state" for a line.
StateJsonFields ==
    /\ an.steps < MaxStateSteps
    /\ \E source_id \in SourceIds, json_fields \in JsonFieldChoices, ts \in LaterTimes :
           \E order \in Orders(FieldKeys(json_fields)) :
               LET line == LogLine(ts, source_id, 1, <<>>, NoJson)
                   r == apply_json_fields(an.state_manager,
                                          ProcessedLine(line, <<>>, json_fields), order)
               IN  an' = [an EXCEPT
                             !.steps = @ + 1, !.now = ts, !.state_manager = r.sm,
                             !.last = [source_id |-> source_id,
                                       changes |-> [k \in DOMAIN r.changes |->
                                                       Change(r.changes[k].state_key,
                                                              r.changes[k].old_value,
                                                              r.changes[k].new_value)]]]
    /\ UNCHANGED <<inp, mg, pm, st, chan>>

NextState == StateApplyMutations \/ StateJsonFields

SpecState == InitState /\ [][NextState]_vars

\* What is stored for the keys of a source: nothing before its first write.
StoredOf(sm, id) ==
    IF sm.per_source_state[id] = 0 THEN [k \in StateKeys |-> Absent]
    ELSE sm.arcs[sm.per_source_state[id]].map

\* C37: the write of a line of a source leaves what is stored for every
\* other source as it was: keys, values and set_at.
C37_OtherSourcesUnchanged ==
    [][\A id \in SourceIds \ {an'.last.source_id} :
           StoredOf(an'.state_manager, id) = StoredOf(an.state_manager, id)]_vars

\* Both sources hold state, under one template and the same rules, and the
\* last line has written over a key the other source holds as well.
C37_Witness ==
    /\ an.last.source_id = 1
    /\ an.last.changes # <<>>
    /\ an.now = 2
    /\ \E k \in StateKeys :
           /\ StoredOf(an.state_manager, 1)[k].set_at = 2
           /\ StoredOf(an.state_manager, 2)[k].set_at = 1
           /\ StoredOf(an.state_manager, 2)[k].value.type # "None"

\* C38: a write that changes what is stored for a key (another value,
\* another variant, or a removal) gives a change record of the key.
C38_ChangeRecordsComplete ==
    [][\A k \in StateKeys :
           StoredOf(an'.state_manager, an'.last.source_id)[k].value
               # StoredOf(an.state_manager, an'.last.source_id)[k].value
           => \E j \in DOMAIN an'.last.changes : an'.last.changes[j].key = k]_vars

\* An Integer and a Float of one magnitude.
SameMagnitude(a, b) ==
    /\ {a.type, b.type} = {"Integer", "Float"}
    /\ (IF a.type = "Integer" THEN 2 * a.i ELSE a.i)
           = (IF b.type = "Integer" THEN 2 * b.i ELSE b.i)

\* The change records are complete for every other change of what is stored.
C38_ChangeRecordsOfOtherChanges ==
    [][\A k \in StateKeys :
           LET old == StoredOf(an.state_manager, an'.last.source_id)[k].value
               new == StoredOf(an'.state_manager, an'.last.source_id)[k].value
           IN  (new # old /\ ~SameMagnitude(old, new))
               => \E j \in DOMAIN an'.last.changes :
                      /\ an'.last.changes[j].key = k
                      /\ an'.last.changes[j].old = old
                      /\ an'.last.changes[j].new = new]_vars

(***************************************************************************)
(* One rule on one line: evaluate_rule in Phase 1, then the loop of        *)
(* apply_mutations over the extraction rules of the rule, one iteration a  *)
(* step.  The extractions of a rule may share a state_key.                 *)
(***************************************************************************)
MaxExtractions == 3

ExtractionKinds == {"static", "static_status", "parsed", "parsed_accumulate", "clear"}

ExtractionOfKind(id, kind) ==
    CASE kind = "static" ->
             ExtractionRule(id, "Static", "n", NoPattern, String(<<"x">>), "Replace")
      [] kind = "static_status" ->
             ExtractionRule(id, "Static", "status", NoPattern, String(<<"x">>), "Replace")
      [] kind = "parsed" ->
             ExtractionRule(id, "Parsed", "n", [key |-> "n", group |-> "n"], None, "Replace")
      [] kind = "parsed_accumulate" ->
             ExtractionRule(id, "Parsed", "n", [key |-> "m", group |-> "n"], None, "Accumulate")
      [] kind = "clear" ->
             ExtractionRule(id, "Clear", "n", NoPattern, None, "Replace")

\* The rules: no match pattern in All mode, so that every line matches.
ExtractRules ==
    {LogRule(1, "All", <<>>, [k \in DOMAIN kinds |-> ExtractionOfKind(k, kinds[k])])
        : kinds \in SeqsUpTo(ExtractionKinds, MaxExtractions) \ {<<>>}}

ExtractLines ==
    {LogLine(2, 1, 1, content, NoJson)
        : content \in SeqsUpTo({KV("n", <<"2">>), KV("m", <<"1">>)}, 2)}

\* The state of the source before the line: empty, or n set by an earlier line.
ExtractStates == {EmptyMap, MapInsert(EmptyMap, "n", TrackedValue(Integer(1), 1))}

InitExtract ==
    /\ inp \in [rule : ExtractRules, line : ExtractLines, state : ExtractStates]
    /\ an = [pc |-> "evaluate", extracted |-> NoExtractions, idx |-> 1,
             acc |-> [state |-> inp.state, changes |-> <<>>]]
    /\ mg = Idle
    /\ pm = Idle
    /\ st = Idle
    /\ chan = Idle

\* evaluate_rule(rule, line, compiled) in process_source.
ExtractEvaluate ==
    /\ an.pc = "evaluate"
    /\ LET r == evaluate_rule(inp.rule, inp.line, CompiledRule(inp.rule))
       IN  an' = IF r.matched
                 THEN [an EXCEPT !.pc = "apply", !.extracted = r.extracted]
                 ELSE [an EXCEPT !.pc = "done"]
    /\ UNCHANGED <<inp, mg, pm, st, chan>>

\* One iteration of `for rule in rules` of apply_mutations.
ExtractApplyOne ==
    /\ an.pc = "apply"
    /\ an.idx <= Len(inp.rule.extraction_rules)
    /\ an' = [an EXCEPT !.idx = @ + 1,
                        !.acc = apply_one(an.acc, inp.rule.extraction_rules[an.idx],
                                          an.extracted, inp.line.timestamp)]
    /\ UNCHANGED <<inp, mg, pm, st, chan>>

\* apply_mutations returns the changes.
ExtractReturn ==
    /\ an.pc = "apply"
    /\ an.idx > Len(inp.rule.extraction_rules)
    /\ an' = [an EXCEPT !.pc = "done"]
    /\ UNCHANGED <<inp, mg, pm, st, chan>>

NextExtract == ExtractEvaluate \/ ExtractApplyOne \/ ExtractReturn

SpecExtract == InitExtract /\ [][NextExtract]_vars

\* What the regex of a Parsed extraction captured on the line under the name
\* of its state_key: the texts of the tokens its pattern matches.
OwnCaptures(ext, line) ==
    {line.content[t].val : t \in {u \in DOMAIN line.content :
                                     /\ ext.pattern.group = ext.state_key
                                     /\ line.content[u].word = ext.pattern.key}}

\* The iteration of a Parsed extraction leaves its key as it was when its
\* regex captured nothing, and writes of its capture else.
WritesOwnCapture(ext) ==
    LET before == an.acc.state[ext.state_key]
        after  == an'.acc.state[ext.state_key]
    IN  IF OwnCaptures(ext, inp.line) = {}
        THEN after = before
        ELSE \E text \in OwnCaptures(ext, inp.line) :
                 after = WriteValue(an.acc.state, ext, CoerceCaptured(text),
                                    inp.line.timestamp)[ext.state_key]

\* C39 (as stated): a Parsed extraction writes its state_key with the value
\* its own regex captured on the line and leaves the key as it was when the
\* regex captured nothing, whatever the other extractions of the rule.
C39_ParsedWritesOwnCapture ==
    [][(an.pc = "apply" /\ an'.idx = an.idx + 1
        /\ inp.rule.extraction_rules[an.idx].extraction_type = "Parsed")
       => WritesOwnCapture(inp.rule.extraction_rules[an.idx])]_vars

\* No Static extraction and no other Parsed extraction of the rule has the
\* state_key of extraction k.
KeyOfItsOwn(k) ==
    \A j \in DOMAIN inp.rule.extraction_rules \ {k} :
        inp.rule.extraction_rules[j].extraction_type \in {"Static", "Parsed"}
            => inp.rule.extraction_rules[j].state_key
                   # inp.rule.extraction_rules[k].state_key

\* The same for a Parsed extraction that shares its state_key with no other
\* Static or Parsed extraction of the rule.
C39_ParsedWritesOwnCaptureOfOwnKey ==
    [][(an.pc = "apply" /\ an'.idx = an.idx + 1
        /\ inp.rule.extraction_rules[an.idx].extraction_type = "Parsed"
        /\ KeyOfItsOwn(an.idx))
       => WritesOwnCapture(inp.rule.extraction_rules[an.idx])]_vars

\* C40: when a line of a source does not parse, analyze ends with the error
\* and has collected nothing, and analyze_streaming ends with the error and
\* has sent no event; neither enters Phase 2.
C40_AllOrNothing ==
    ~AllParse(inp.files) =>
        /\ an.pc \in {"phase1", "done"}
        /\ an.pc = "done" => an.result = "err"
        /\ an.all_rule_matches = <<>>
        /\ an.all_pattern_matches = <<>>
        /\ an.all_state_changes = <<>>
        /\ st.pc \in {"phase1", "done"}
        /\ st.pc = "done" => st.result = "err"
        /\ st.lines_processed = 0
        /\ chan.sent = <<>>

\* Both drivers have returned the error for a source whose last line does not
\* parse, after a line that parses, matches a rule and lies in the time range.
C40_Witness ==
    /\ an.pc = "done"
    /\ st.pc = "done"
    /\ st.result = "err"
    /\ inp.time_range.end # 0
    /\ Len(inp.files[1]) >= 2
    /\ inp.files[1][1].ts = 1
    /\ inp.files[1][1].content = <<Word("up")>>
    /\ inp.files[1][Len(inp.files[1])].ts = 0

=============================================================================
